---- MODULE Spec2Model ----
(***************************************************************************)
(* Model of the receipt-printer servers of cursor-receipts.                *)
(*                                                                         *)
(*   server = "lp"  : src/server.ts, the queue drained into `lp -o raw`.   *)
(*   server = "usb" : src/unnamed/part_002, the queue drained into the     *)
(*                    Printer of src/lib/index.ts (USBAdapter).            *)
(*   SpecNet        : NetworkAdapter of src/lib/index.ts on its own.       *)
(*                                                                         *)
(* One action is one turn of the JavaScript event loop: a timer, an I/O    *)
(* callback or a request, run to completion together with every promise    *)
(* continuation that needs no further I/O.  Durations are not modelled: a  *)
(* pending timer or I/O completion may fire at any later turn.             *)
(***************************************************************************)
EXTENDS Integers, Sequences, FiniteSets, TLC

(* ------------------------------ bounds --------------------------------- *)
\* Number of POST /chat requests the environment sends.
MaxReq == 2

(* ------------------------- program constants --------------------------- *)
ESC == 27
GS == 29
LF == 10
chunkSize == 64
printerWidth == 576
MAX_WIDTH == 384
MaxUpload == 5242880

(* ---------------------------- byte strings ----------------------------- *)
\* Buffer.from(<string literal>) of the sources, as UTF-8 bytes.
BlankPrint == <<98, 108, 97, 110, 107, 32, 112, 114, 105, 110, 116>>
ImageProcessingError ==
  <<10, 91, 73, 109, 97, 103, 101, 32, 112, 114, 111, 99, 101, 115, 115, 105,
    110, 103, 32, 101, 114, 114, 111, 114, 93, 10>>
ImageError == <<91, 73, 109, 97, 103, 101, 32, 69, 114, 114, 111, 114, 93, 10>>
PhotoAttached ==
  <<91, 240, 159, 147, 184, 32, 112, 104, 111, 116, 111, 32, 97, 116, 116, 97,
    99, 104, 101, 100, 93>>
PrinterReady ==
  <<240, 159, 167, 190, 32, 80, 82, 73, 78, 84, 69, 82, 32, 82, 69, 65, 68, 89,
    32, 226, 128, 147, 32, 99, 97, 102, 195, 169, 32, 109, 111, 100, 101, 32,
    97, 99, 116, 105, 118, 97, 116, 101, 100, 32, 240, 159, 167, 190>>

\* Inputs of the environment: a sender name and message bodies.
Ann == <<65, 110, 110>>
Hi == <<72, 105>>
\* A body longer than one USB chunk.
Long == [i \in 1..70 |-> 65 + (i % 26)]
\* A body of the three characters U+001D, 'v', '0'.
GsvText == <<GS, 118, 48>>

(* ------------------------------ helpers -------------------------------- *)
\* null / undefined of a string-valued field (distinct from the empty string).
Null == <<-1>>

Truthy(s) == s # Null /\ s # <<>>

\* `s || undefined`
OrUndefined(s) == IF Truthy(s) THEN s ELSE Null

RECURSIVE Concat(_)
\* Buffer.concat(list)
Concat(list) == IF list = <<>> THEN <<>> ELSE Head(list) \o Concat(Tail(list))

\* "\n".repeat(n)
Newlines(n) == [i \in 1..n |-> LF]

\* buf.slice(from, to) with 0-based, end-exclusive indices clamped to the buffer
Slice(buf, from, to) ==
  LET t == IF to > Len(buf) THEN Len(buf) ELSE to
  IN  IF from >= t THEN <<>> ELSE SubSeq(buf, from + 1, t)

\* needle occurs in buf as a contiguous run of bytes
Contains(buf, needle) ==
  \E i \in 0..(Len(buf) - Len(needle)) : \A k \in 1..Len(needle) : buf[i + k] = needle[k]

Range(s) == {s[i] : i \in 1..Len(s)}

Min(a, b) == IF a < b THEN a ELSE b

(* --------------------------- raster fragment --------------------------- *)
\* Decoded and resized pixel data: the environment's images.  A pixel is
\* black when the converter's threshold test (luminance < 128 after
\* dithering) holds for it.
GoodBlack(x, y) == (x + y) % 2 = 0

\* The uploaded test picture and the logo file, as decoded: width x height.
GoodPng == [w |-> 384, h |-> 1]
LogoPng == [w |-> 500, h |-> 2]

\* bitmap[byteIndex] |= 1 << (7 - (x % 8)) for pixel x = 8 * col + i of row y,
\* when it lies inside the width and is black.
PackBit(w, y, col, i) ==
  IF 8 * col + i < w /\ GoodBlack(8 * col + i, y) THEN 2 ^ (7 - i) ELSE 0

\* One bitmap byte: the bits of its eight columns.
PackByte(w, y, col) ==
  PackBit(w, y, col, 0) + PackBit(w, y, col, 1)
  + PackBit(w, y, col, 2) + PackBit(w, y, col, 3)
  + PackBit(w, y, col, 4) + PackBit(w, y, col, 5)
  + PackBit(w, y, col, 6) + PackBit(w, y, col, 7)

\* Buffer.concat([header, bitmap]): GS v 0 m xL xH yL yH, then the rows.
RasterCommand(w, h) ==
  LET bytesPerRow == (w + 7) \div 8
      xL == bytesPerRow % 256
      xH == (bytesPerRow \div 256) % 256
      yL == h % 256
      yH == (h \div 256) % 256
      header == <<GS, 118, 48, 0, xL, xH, yL, yH>>
      bitmap == [k \in 1..(bytesPerRow * h) |->
                   PackByte(w, (k - 1) \div bytesPerRow, (k - 1) % bytesPerRow)]
  IN  header \o bitmap

\* Math.round of the ratio a / b of two positive integers.
RoundDiv(a, b) == (2 * a + b) \div (2 * b)

\* sharp(...).resize(width, null, {fit: 'inside', withoutEnlargement: false}):
\* the output is `width` wide, the height follows the aspect ratio.
SharpResize(png, width) ==
  [w |-> width, h |-> IF RoundDiv(png.h * width, png.w) < 1 THEN 1
                      ELSE RoundDiv(png.h * width, png.w)]

\* server.ts processImage: [ok, data]; an undecodable upload throws.
processImage(kind) ==
  IF kind = "good"
  THEN LET png == SharpResize(GoodPng, printerWidth)
       IN  [ok |-> TRUE, data |-> RasterCommand(png.w, png.h)]
  ELSE [ok |-> FALSE, data |-> <<>>]

maxLogoWidth == 250

\* server.ts processLogo on the logo file; readable is whether sharp and
\* pngjs accept the file.
processLogo(readable) ==
  IF readable
  THEN LET png == SharpResize(LogoPng, maxLogoWidth)
       IN  [ok |-> TRUE, data |-> RasterCommand(png.w, png.h)]
  ELSE [ok |-> FALSE, data |-> <<>>]

\* lib MessageFormatter.processImage + convertToBitmap: File -> raster.
\* "unreadable": arrayBuffer() rejects; "bad": PNG.sync.read throws.
LibResize(png) ==
  IF png.w > MAX_WIDTH
  THEN [w |-> MAX_WIDTH, h |-> (png.h * MAX_WIDTH) \div png.w]
  ELSE png

LibProcessImage(kind) ==
  IF kind = "good"
  THEN LET png == LibResize(GoodPng)
       IN  [ok |-> TRUE, data |-> RasterCommand(png.w, png.h)]
  ELSE [ok |-> FALSE, data |-> <<>>]

(* ------------------ server.ts print: command assembly ------------------ *)
Reset == <<ESC, 64>>
AlignLeft == <<ESC, 97, 0>>
AlignCenter == <<ESC, 97, 1>>
BoldOn == <<ESC, 69, 1>>
BoldOff == <<ESC, 69, 0>>
DoubleSize == <<GS, 33, 17>>
NormalSize == <<GS, 33, 0>>
logoPosition == 320
LogoPos == <<ESC, 36, logoPosition % 256, (logoPosition \div 256) % 256>>
FullCut == <<ESC, 105>>

\* A queued job: [id, name, text, image]; name and text are Null when absent,
\* image is "none" or the kind of the uploaded file.
HasImage(job) == job.image # "none"

NameBlock(name) == <<AlignLeft, BoldOn, DoubleSize, name, NormalSize, BoldOff>>

\* print(), from the reset to the first await of the name/logo block.
\* wait: "logoName" | "logoCenter" | "none".
PrintNameLogoStart(job, logo) ==
  IF Truthy(job.name) /\ logo /\ HasImage(job)
  THEN [parts |-> <<Reset>> \o NameBlock(job.name) \o <<LogoPos>>, wait |-> "logoName"]
  ELSE IF ~Truthy(job.name) /\ logo /\ HasImage(job)
  THEN [parts |-> <<Reset, AlignCenter>>, wait |-> "logoCenter"]
  ELSE IF Truthy(job.name)
  THEN [parts |-> <<Reset>> \o NameBlock(job.name) \o <<Newlines(1)>>, wait |-> "none"]
  ELSE [parts |-> <<Reset>>, wait |-> "none"]

\* print(), after `await processLogo(logoBuffer)` settled with `res`.
PrintAfterLogo(parts, job, wait, res) ==
  IF wait = "logoName"
  THEN IF res.ok
       THEN parts \o <<res.data, AlignLeft, Newlines(1)>>
       ELSE parts \o NameBlock(job.name) \o <<Newlines(1)>>
  ELSE IF res.ok
       THEN parts \o <<res.data, AlignLeft, Newlines(1)>>
       ELSE parts

\* print(), the text block.
PrintText(parts, job) ==
  IF Truthy(job.text) THEN parts \o <<job.text, Newlines(1)>> ELSE parts

\* print(), the image block before `await processImage`.
PrintImageStart(parts) == parts \o <<AlignCenter>>

\* print(), the image block after `await processImage` settled with `res`.
PrintAfterImage(parts, res) ==
  IF res.ok
  THEN parts \o <<res.data, AlignLeft, Newlines(3)>>
  ELSE parts \o <<ImageProcessingError>>

\* print(), the trailer and Buffer.concat(parts).
PrintTrailer(parts) == parts \o <<Newlines(3), FullCut>>
PrintCommand(parts) == Concat(PrintTrailer(parts))

(* ---------------------- lib: ESCPOSEncoder, formatter ------------------ *)
\* The encoder's state is its fragment list `buffer`.
EncClear(buffer) == <<>>
EncInit(buffer) == Append(buffer, <<ESC, 64>>)
EncText(buffer, content) == Append(buffer, content)
\* A newline that extends the fragment appended last.
EncNewlineMerge(buffer, count) ==
  IF buffer = <<>> THEN <<Newlines(count)>>
  ELSE [buffer EXCEPT ![Len(buffer)] = @ \o Newlines(count)]

EncNewline(buffer, count) == Append(buffer, Newlines(count))

EncImage(buffer, imageData) == Append(buffer, imageData)
EncAlign(buffer, position) ==
  Append(buffer, <<ESC, 97, CASE position = "left" -> 0 [] position = "center" -> 1
                              [] position = "right" -> 2>>)
EncBold(buffer, enabled) == Append(buffer, <<ESC, 69, IF enabled THEN 1 ELSE 0>>)
\* size(width, height): each clamped to 1..8, (w - 1) << 4 | (h - 1)
EncSize(buffer, width, height) ==
  LET w == (IF width < 1 THEN 1 ELSE IF width > 8 THEN 8 ELSE width) - 1
      h == (IF height < 1 THEN 1 ELSE IF height > 8 THEN 8 ELSE height) - 1
  IN  Append(buffer, <<GS, 33, 16 * w + h>>)
EncCut(buffer) == Append(buffer, <<GS, 86, 65, 0>>)
EncGetBuffer(buffer) == Concat(buffer)

\* formatMessage: the plain text message of a content.
FormatText(content) ==
  (IF Truthy(content.name) THEN content.name \o Newlines(2) ELSE <<>>)
  \o (IF Truthy(content.text) THEN content.text ELSE <<>>)
  \o (IF HasImage(content) /\ ~Truthy(content.text) THEN PhotoAttached ELSE <<>>)

\* formatMessage, from clear() to the await of the image (or to getBuffer).
FormatStart(buffer, content) ==
  EncNewline(EncText(EncInit(EncClear(buffer)), FormatText(content)), 6)

\* formatMessage, after `await this.processImage(content.image)` settled.
FormatAfterImage(buffer, res) ==
  IF res.ok
  THEN EncText(EncImage(EncText(buffer, Newlines(1)), res.data), Newlines(1))
  ELSE EncText(buffer, ImageError)

(* ------------------------ lib: USBAdapter.write ------------------------ *)
\* The offsets at which needle occurs in data.
Occurrences(data, needle) ==
  {i \in 0..(Len(data) - Len(needle)) : \A k \in 1..Len(needle) : data[i + k] = needle[k]}

\* data.indexOf(Buffer.from([0x1D, 0x76, 0x30])): the first offset, or -1.
GsvIndex(data) ==
  LET hits == Occurrences(data, <<GS, 118, 48>>)
  IN  IF hits = {} THEN -1 ELSE CHOOSE i \in hits : \A j \in hits : i <= j

\* The chunks of one segment: seg.slice(i, i + chunkSize) for i = 0, 64, ...
ChunksOf(seg) ==
  [k \in 1..((Len(seg) + chunkSize - 1) \div chunkSize) |->
     Slice(seg, (k - 1) * chunkSize, k * chunkSize)]

\* The three segments of a buffer holding a GS v 0 command.  A header byte
\* read past the end of the buffer is undefined: xL or yL undefined makes the
\* sizes NaN (undefined << 8 is 0), slice(gsvIndex, NaN) is empty and
\* slice(NaN) is the whole buffer.
UsbSegments(data) ==
  LET gsvIndex == GsvIndex(data)
      B(i) == IF i < Len(data) THEN data[i + 1] ELSE 0
      isNaN == gsvIndex + 4 >= Len(data) \/ gsvIndex + 6 >= Len(data)
      bytesPerRow == B(gsvIndex + 4) + 256 * B(gsvIndex + 5)
      heightDots == B(gsvIndex + 6) + 256 * B(gsvIndex + 7)
      imageCommandEnd == gsvIndex + 8 + bytesPerRow * heightDots
  IN  IF isNaN
      THEN <<Slice(data, 0, gsvIndex), <<>>, data>>
      ELSE <<Slice(data, 0, gsvIndex),
             Slice(data, gsvIndex, imageCommandEnd),
             Slice(data, imageCommandEnd, Len(data))>>

\* Every chunk write() transfers, in order.
UsbChunks(data) ==
  IF GsvIndex(data) >= 0
  THEN LET segs == UsbSegments(data)
       IN  ChunksOf(segs[1]) \o ChunksOf(segs[2]) \o ChunksOf(segs[3])
  ELSE ChunksOf(data)


(* ------------------------------- state --------------------------------- *)
VARIABLES
  server,       \* "lp" (server.ts) or "usb" (part_002): which server runs
  booted,       \* the module body (startup code) has run
  blocked,      \* the event loop is stuck inside an execSync that never returns
  logoBuffer,   \* server.ts logoBuffer: "none" | "good" | "corrupt"
  queue,        \* `queue`: the pending jobs
  reqs,         \* the POST /chat requests, by arrival number
  tasks,        \* one print per dequeued job (task 0: the startup self-test)
  initialized,  \* Printer.initialized
  adapter,      \* Printer.adapter: "null" | "opened" | "ready"
  encoder,      \* the Printer's MessageFormatter's ESCPOSEncoder.buffer
  sentOrder,    \* tasks in the order of their first hand-off to the transport
  lastSent,     \* the latest hand-off to the transport: [task, data]
  enqOrder,     \* ids of the jobs in the order of queue.push
  deqOrder      \* ids of the jobs in the order of queue.shift

srvVars == <<server, booted, blocked, logoBuffer, queue, reqs, tasks,
             initialized, adapter, encoder, sentOrder, lastSent, enqOrder, deqOrder>>

\* What the transport (the lp command, the USB endpoint) has been handed.
wire == <<sentOrder, lastSent>>

NoData == [task |-> -1, data |-> <<>>]

\* `data` of task t is handed to the transport.
Sent(t, data) ==
  /\ lastSent' = [task |-> t, data |-> data]
  /\ sentOrder' = IF t \in Range(sentOrder) THEN sentOrder ELSE Append(sentOrder, t)

ReqIds == 1..MaxReq
TaskIds == 0..MaxReq

\* A File of the form: kind "none" is a missing field (null).
NoFile == [kind |-> "none", size |-> 0]
NoForm == [name |-> Null, text |-> Null, image |-> NoFile]

\* The submissions the environment makes.
Forms ==
  { [name |-> Ann,  text |-> Hi,   image |-> [kind |-> "bad", size |-> 1000]],
    [name |-> Null, text |-> Long, image |-> NoFile],
    [name |-> Null, text |-> <<>>, image |-> [kind |-> "good", size |-> 1000]],
    [name |-> <<>>, text |-> Null, image |-> NoFile],
    [name |-> Null, text |-> <<>>, image |-> [kind |-> "empty", size |-> 0]],
    [name |-> Ann,  text |-> Null, image |-> [kind |-> "unreadable", size |-> 1000]],
    [name |-> Null, text |-> Hi,   image |-> [kind |-> "good", size |-> 6000000]],
    [name |-> Null, text |-> GsvText, image |-> [kind |-> "good", size |-> 1000]] }

NoJob == [id |-> -1, name |-> Null, text |-> Null, image |-> "none"]
SelfTest == [id |-> 0, name |-> Null, text |-> PrinterReady, image |-> "none"]

IdleTask ==
  [job |-> NoJob, handler |-> "idle", outcome |-> "none", pc |-> "idle",
   parts |-> <<>>, wait |-> "none", commands |-> <<>>, chunks |-> <<>>,
   raster |-> FALSE, ci |-> 0]

NewReq == [pc |-> "new", form |-> NoForm, response |-> "none"]

(* ------------------- state of lib's NetworkAdapter --------------------- *)
\* Sockets the adapter may create, write() calls and close() calls the client makes.
MaxSock == 3
MaxWrites == 2
MaxCloses == 1

SockIds == 1..MaxSock
CallIds == 1..MaxWrites

\* Error codes of the environment; the last stands for every other code.
Codes == {"EPIPE", "ECONNRESET", "ENOTCONN", "ETIMEDOUT"}

\* write(): err.code === 'EPIPE' || err.code === 'ECONNRESET' || err.code === 'ENOTCONN'
IsResetClass(code) == code \in {"EPIPE", "ECONNRESET", "ENOTCONN"}

VARIABLES
  nConnected,   \* NetworkAdapter.connected
  nSocket,      \* NetworkAdapter.socket: the id of a socket, 0 for null
  nSocks,       \* every socket created so far, with its listeners
  nCalls,       \* the write() calls
  nCrashed,     \* an 'error' event found no listener: the process is gone
  nCloses       \* close() calls made

netVars == <<nConnected, nSocket, nSocks, nCalls, nCrashed, nCloses>>

\* Listeners: onError of connect() on socket k, onError of write() call c.
ConnErr(k) == [kind |-> "connect", id |-> k]
WriteErr(c) == [kind |-> "write", id |-> c]

\* st: "unused" | "connecting" | "open" | "broken" (a write failed, destroyed,
\* its 'error' event not yet emitted) | "destroyed".
NoSock ==
  [st |-> "unused", errL |-> {}, connL |-> FALSE, owner |-> 0, role |-> "none",
   closeOwed |-> FALSE, err |-> "none", written |-> <<>>]

\* One writeInternal(data): the socket it wrote to and how far it is:
\* "none" | "cb" (callback pending) | "drain" | "ok" | "err".
NoAttempt == [sock |-> 0, st |-> "none"]

\* One write(data) call.  rec is its recovery: "none" | "connecting" |
\* "writing" | "ok" | "connfail" | "writefail"; fail1 is the class of the
\* error that failed the first attempt: "none" | "reset" | "other";
\* recoveries counts its recovery connect() calls, sends its socket.write calls.
NoCall ==
  [pc |-> "idle", promise |-> "none", a1 |-> NoAttempt, a2 |-> NoAttempt,
   rec |-> "none", fail1 |-> "none", recoveries |-> 0, sends |-> 0]

\* The adapter and its sockets as one value, for the sequential code below.
NetState ==
  [connected |-> nConnected, socket |-> nSocket, socks |-> nSocks,
   calls |-> nCalls, crashed |-> nCrashed]

NetSet(S) ==
  /\ nConnected' = S.connected
  /\ nSocket' = S.socket
  /\ nSocks' = S.socks
  /\ nCalls' = S.calls
  /\ nCrashed' = S.crashed

NetInit ==
  /\ nConnected = FALSE
  /\ nSocket = 0
  /\ nSocks = [k \in SockIds |-> NoSock]
  /\ nCalls = [c \in CallIds |-> NoCall]
  /\ nCrashed = FALSE
  /\ nCloses = 0

(* --------------------- state of lib's USBAdapter ----------------------- *)
\* connect() and close() calls the client makes on one USBAdapter.
MaxUsbCalls == 3

\* Endpoint descriptors: [addr |-> bEndpointAddress, attr |-> bmAttributes].
BulkOut1 == [addr |-> 1, attr |-> 2]
BulkOut2 == [addr |-> 2, attr |-> 2]
BulkOut3 == [addr |-> 3, attr |-> 2]
BulkIn == [addr |-> 129, attr |-> 2]
IntOut == [addr |-> 4, attr |-> 3]

\* Configuration descriptors of the attached device: the interfaces in
\* descriptor order, each with the bInterfaceNumber, bInterfaceClass and
\* endpoints of its first alternate setting.
Configs ==
  { << [num |-> 0, class |-> 7, eps |-> <<BulkIn, BulkOut1>>],
       [num |-> 1, class |-> 255, eps |-> <<BulkOut2>>] >>,
    << [num |-> 0, class |-> 7, eps |-> <<BulkOut1>>],
       [num |-> 1, class |-> 3, eps |-> <<IntOut, BulkOut3, BulkOut2>>],
       [num |-> 2, class |-> 255, eps |-> <<BulkIn, BulkOut2>>] >>,
    << [num |-> 0, class |-> 7, eps |-> <<BulkOut1>>],
       [num |-> 1, class |-> 7, eps |-> <<BulkOut2>>],
       [num |-> 2, class |-> 255, eps |-> <<IntOut, BulkIn>>] >>,
    << [num |-> 0, class |-> 7, eps |-> <<BulkIn>>] >> }

IfaceNums == {0, 1, 2}

VARIABLES
  uConfig,      \* device.configDescriptor.interfaces
  uDevOpen,     \* the device is open
  uOpenCalls,   \* device.open() calls made
  uClaimCalls,  \* interface.claim() calls made
  uClaimed,     \* numbers of the interfaces that are claimed
  uInterface,   \* USBAdapter.interface: an interface number, -1 for null
  uEndpoint,    \* USBAdapter.endpoint: an endpoint address, -1 for null
  uTried,       \* the interfaces the latest connect() tried to claim, in order
  uResult,      \* how the latest connect() ended: "none" | "ok" | "failed"
  uCalls,       \* connect() and close() calls made
  uCloseCalls,  \* close() calls made
  uDevCloseCalls, \* device.close() calls made
  uCloseThrew   \* some close() call has thrown

usbVars == <<uConfig, uDevOpen, uOpenCalls, uClaimCalls, uClaimed, uInterface,
             uEndpoint, uTried, uResult, uCalls, uCloseCalls, uDevCloseCalls,
             uCloseThrew>>

(* ------------------ a library function called on its own --------------- *)
\* The function a client called last, its argument and what it returned.
VARIABLES fnName, fnArg, fnRes

fnVars == <<fnName, fnArg, fnRes>>

FnInit == fnName = "none" /\ fnArg = <<>> /\ fnRes = <<>>

\* The state of the library objects the servers' actions do not touch.
libVars == <<netVars, usbVars, fnVars>>

UsbInit ==
  /\ uConfig = <<>>
  /\ uDevOpen = FALSE
  /\ uOpenCalls = 0
  /\ uClaimCalls = 0
  /\ uClaimed = {}
  /\ uInterface = -1
  /\ uEndpoint = -1
  /\ uTried = <<>>
  /\ uResult = "none"
  /\ uCalls = 0
  /\ uCloseCalls = 0
  /\ uDevCloseCalls = 0
  /\ uCloseThrew = FALSE

Init ==
  /\ server \in {"lp", "usb"}
  /\ booted = FALSE
  /\ blocked = FALSE
  /\ logoBuffer = "none"
  /\ queue = <<>>
  /\ reqs = [r \in ReqIds |-> NewReq]
  /\ tasks = [t \in TaskIds |-> IdleTask]
  /\ initialized = FALSE
  /\ adapter = "null"
  /\ encoder = <<>>
  /\ sentOrder = <<>>
  /\ lastSent = NoData
  /\ enqOrder = <<>>
  /\ deqOrder = <<>>
  /\ NetInit
  /\ UsbInit
  /\ FnInit

(* ----------------------- lib: Printer, USB write ----------------------- *)
\* An initialize that gives up for good once a connect has failed.
PrinterInitializeOnce(init, adp, dev) ==
  IF init THEN [initialized |-> TRUE, adapter |-> adp, ok |-> TRUE]
  ELSE IF dev = "ok" /\ adp # "opened"
       THEN [initialized |-> TRUE, adapter |-> "ready", ok |-> TRUE]
  ELSE [initialized |-> FALSE, adapter |-> IF dev = "nodevice" THEN adp ELSE "opened",
        ok |-> FALSE]

\* Printer.initialize (USB branch) with the device's answer `dev`:
\* "ok", "nodevice" (new USBAdapter() throws) or "noclaim" (connect() throws).
\* [initialized, adapter, ok].
PrinterInitialize(init, adp, dev) ==
  IF init THEN [initialized |-> TRUE, adapter |-> adp, ok |-> TRUE]
  ELSE IF dev = "ok" THEN [initialized |-> TRUE, adapter |-> "ready", ok |-> TRUE]
  ELSE IF dev = "noclaim" THEN [initialized |-> FALSE, adapter |-> "opened", ok |-> FALSE]
  ELSE [initialized |-> FALSE, adapter |-> adp, ok |-> FALSE]

DeviceAnswers == {"ok", "nodevice", "noclaim"}

\* A race that reports success whatever the promise settled with.
SettleAlwaysOk(task, outcome) ==
  IF task.handler = "race"
  THEN [task EXCEPT !.handler = "done", !.outcome = "ok"]
  ELSE task

\* The task record when a handler's await ends: the race is decided once.
Settle(task, outcome) ==
  IF task.handler = "race"
  THEN [task EXCEPT !.handler = "done", !.outcome = outcome]
  ELSE task

\* A write that hands every chunk to the endpoint without awaiting any.
UsbWriteAllAtOnce(t, task, commands) ==
  /\ tasks' = [tasks EXCEPT ![t] =
                 [task EXCEPT !.pc = "xfer", !.commands = commands,
                              !.ci = Len(UsbChunks(commands)),
                              !.chunks = UsbChunks(commands),
                              !.raster = GsvIndex(commands) >= 0]]
  /\ Sent(t, UsbChunks(commands)[Len(UsbChunks(commands))])

\* USBAdapter.write(commands) up to its first await: the buffer is split
\* once (beforeImage, imageCommand, afterImage, or the plain chunk loop) and
\* the first chunk is handed to endpoint.transfer.
UsbWriteStart(t, task, commands) ==
  /\ tasks' = [tasks EXCEPT ![t] =
                 [task EXCEPT !.pc = "xfer", !.commands = commands, !.ci = 1,
                              !.chunks = UsbChunks(commands),
                              !.raster = GsvIndex(commands) >= 0]]
  /\ Sent(t, UsbChunks(commands)[1])

\* Printer.printMessage(content) up to its first await that needs I/O.
PrintMessageStart(t, task, content) ==
  LET enc == FormatStart(encoder, content)
  IN  /\ encoder' = enc
      /\ IF HasImage(content)
         THEN /\ tasks' = [tasks EXCEPT ![t] = [task EXCEPT !.pc = "image"]]
              /\ UNCHANGED wire
         ELSE UsbWriteStart(t, task, EncGetBuffer(enc))

\* formatMessage resumes: processImage settled (arrayBuffer, PNG parse).
UsbImageDone(t) ==
  /\ server = "usb" /\ ~blocked
  /\ tasks[t].pc = "image"
  /\ LET enc == FormatAfterImage(encoder, LibProcessImage(tasks[t].job.image))
     IN  /\ encoder' = enc
         /\ UsbWriteStart(t, tasks[t], EncGetBuffer(enc))
  /\ UNCHANGED libVars
  /\ UNCHANGED <<server, booted, blocked, logoBuffer, queue, reqs, initialized,
                 adapter, enqOrder, deqOrder>>

\* A chunk's transfer callback fires with `error` or without.
UsbXferDone(t) ==
  /\ server = "usb" /\ ~blocked
  /\ tasks[t].pc = "xfer"
  /\ LET task == tasks[t]
         chunks == task.chunks
         raster == task.raster
     IN  \E error \in BOOLEAN :
           IF error
           THEN /\ tasks' = [tasks EXCEPT ![t] =
                                Settle([task EXCEPT !.pc = "failed", !.commands = <<>>,
                                                    !.chunks = <<>>], "error")]
                /\ UNCHANGED wire
           ELSE IF task.ci = Len(chunks)
           THEN /\ tasks' = [tasks EXCEPT ![t] = [task EXCEPT !.pc = "settle", !.commands = <<>>,
                                                                !.chunks = <<>>]]
                /\ UNCHANGED wire
           ELSE IF raster
           THEN /\ tasks' = [tasks EXCEPT ![t] = [task EXCEPT !.ci = task.ci + 1]]
                /\ Sent(t, chunks[task.ci + 1])
           ELSE /\ tasks' = [tasks EXCEPT ![t] = [task EXCEPT !.pc = "gap"]]
                /\ UNCHANGED wire
  /\ UNCHANGED libVars
  /\ UNCHANGED <<server, booted, blocked, logoBuffer, queue, reqs, initialized,
                 adapter, encoder, enqOrder, deqOrder>>

\* The 5 ms pause between two chunks of a buffer without raster is over.
UsbGapDone(t) ==
  /\ server = "usb" /\ ~blocked
  /\ tasks[t].pc = "gap"
  /\ tasks' = [tasks EXCEPT ![t] = [@ EXCEPT !.pc = "xfer", !.ci = @ + 1]]
  /\ Sent(t, tasks[t].chunks[tasks[t].ci + 1])
  /\ UNCHANGED libVars
  /\ UNCHANGED <<server, booted, blocked, logoBuffer, queue, reqs, initialized,
                 adapter, encoder, enqOrder, deqOrder>>

\* The settle pause after the last chunk is over: write and printMessage resolve.
UsbSettleDone(t) ==
  /\ server = "usb" /\ ~blocked
  /\ tasks[t].pc = "settle"
  /\ tasks' = [tasks EXCEPT ![t] = Settle([@ EXCEPT !.pc = "done"], "ok")]
  /\ UNCHANGED libVars
  /\ UNCHANGED <<server, booted, blocked, logoBuffer, queue, reqs, initialized,
                 adapter, encoder, wire, enqOrder, deqOrder>>

\* The 30 s timer of the tick's Promise.race fires first.
PrintTimeout(t) ==
  /\ server = "usb" /\ ~blocked
  /\ tasks[t].handler = "race"
  /\ tasks' = [tasks EXCEPT ![t] = Settle(@, "timeout")]
  /\ UNCHANGED libVars
  /\ UNCHANGED <<server, booted, blocked, logoBuffer, queue, reqs, initialized,
                 adapter, encoder, wire, enqOrder, deqOrder>>


(* --------------------------- server.ts: print -------------------------- *)
\* execSync(`cat | lp ...`) returns, throws, or never returns.
LpAnswers == {"ok", "error", "hang"}

\* print(job) from Buffer.concat to its end.  The command is handed to lp;
\* a throw is caught inside print, so the tick's `await print(job)` resolves.
LpSend(t, task, parts) ==
  \E lp \in LpAnswers :
    /\ Sent(t, PrintCommand(parts))
    /\ blocked' = (lp = "hang")
    /\ tasks' = [tasks EXCEPT ![t] =
                   [task EXCEPT !.parts = <<>>, !.wait = "none",
                                !.pc = IF lp = "hang" THEN "hung" ELSE "done",
                                !.handler = IF lp = "hang" THEN "await" ELSE "done",
                                !.outcome = IF lp = "hang" THEN "none" ELSE lp]]

\* print(job) from the text block to the next await (or to the end).
LpFromText(t, task, parts) ==
  LET withText == PrintText(parts, task.job)
  IN  IF HasImage(task.job)
      THEN /\ tasks' = [tasks EXCEPT ![t] =
                          [task EXCEPT !.pc = "image", !.wait = "none",
                                       !.parts = PrintImageStart(withText)]]
           /\ UNCHANGED <<wire, blocked>>
      ELSE LpSend(t, task, withText)

\* print(job) from its start to the first await (or to the end).
LpPrintStart(t, task) ==
  LET start == PrintNameLogoStart(task.job, logoBuffer # "none")
  IN  IF start.wait # "none"
      THEN /\ tasks' = [tasks EXCEPT ![t] =
                          [task EXCEPT !.pc = "logo", !.wait = start.wait,
                                       !.parts = start.parts]]
           /\ UNCHANGED <<wire, blocked>>
      ELSE LpFromText(t, task, start.parts)

\* `await processLogo(logoBuffer)` settles.
LpLogoDone(t) ==
  /\ server = "lp" /\ ~blocked
  /\ tasks[t].pc = "logo"
  /\ LpFromText(t, tasks[t],
                PrintAfterLogo(tasks[t].parts, tasks[t].job, tasks[t].wait,
                               processLogo(logoBuffer = "good")))
  /\ UNCHANGED libVars
  /\ UNCHANGED <<server, booted, logoBuffer, queue, reqs, initialized,
                 adapter, encoder, enqOrder, deqOrder>>

\* `await processImage(job.image.data)` settles.
LpImageDone(t) ==
  /\ server = "lp" /\ ~blocked
  /\ tasks[t].pc = "image"
  /\ LpSend(t, tasks[t], PrintAfterImage(tasks[t].parts, processImage(tasks[t].job.image)))
  /\ UNCHANGED libVars
  /\ UNCHANGED <<server, booted, logoBuffer, queue, reqs, initialized,
                 adapter, encoder, enqOrder, deqOrder>>

(* ------------------------- the queue processor ------------------------- *)
\* A consumer that reads the oldest job and leaves it queued: queue[0].
QueuePeek(q) == [job |-> Head(q), rest |-> q]

\* A consumer that takes the newest job: queue.pop().
QueuePop(q) == [job |-> q[Len(q)], rest |-> SubSeq(q, 1, Len(q) - 1)]

\* queue.shift() on a non-empty queue: the removed job and what remains.
QueueShift(q) == [job |-> Head(q), rest |-> Tail(q)]

\* The setInterval callback of server.ts (487-501).
TickLp ==
  LET job == QueueShift(queue).job
  IN  /\ queue' = QueueShift(queue).rest
      /\ deqOrder' = Append(deqOrder, job.id)
      /\ LpPrintStart(job.id, [IdleTask EXCEPT !.job = job, !.handler = "await"])
      /\ UNCHANGED <<initialized, adapter, encoder>>

\* The setInterval callback of part_002 (12-43).
TickUsb ==
  LET content == QueueShift(queue).job
      t == content.id
  IN  /\ queue' = QueueShift(queue).rest
      /\ deqOrder' = Append(deqOrder, t)
      /\ \E dev \in DeviceAnswers :
           LET ini == PrinterInitialize(initialized, adapter, dev)
           IN  /\ initialized' = ini.initialized
               /\ adapter' = ini.adapter
               /\ IF ini.ok
                  THEN PrintMessageStart(t, [IdleTask EXCEPT !.job = content, !.handler = "race"],
                                         content)
                  ELSE /\ tasks' = [tasks EXCEPT ![t] =
                                      [IdleTask EXCEPT !.job = content, !.handler = "done",
                                                       !.outcome = "initfail"]]
                       /\ UNCHANGED <<encoder, wire>>
      /\ UNCHANGED blocked

\* One firing of the 8 s interval timer.
Tick ==
  /\ booted /\ ~blocked
  /\ IF Len(queue) > 0
     THEN IF server = "lp" THEN TickLp ELSE TickUsb
     ELSE UNCHANGED <<queue, deqOrder, tasks, wire, blocked, initialized, adapter, encoder>>
  /\ UNCHANGED libVars
  /\ UNCHANGED <<server, booted, logoBuffer, reqs, enqOrder>>

(* ------------------------------- startup ------------------------------- *)
\* server.ts 20-33: the logo is read once.  part_002 46-50: the printer is
\* initialized and, when that succeeds, the self-test is printed.
Startup ==
  /\ ~booted
  /\ booted' = TRUE
  /\ IF server = "lp"
     THEN /\ logoBuffer' \in {"none", "good", "corrupt"}
          /\ UNCHANGED <<initialized, adapter, encoder, tasks, wire>>
     ELSE /\ UNCHANGED logoBuffer
          /\ \E dev \in DeviceAnswers :
               LET ini == PrinterInitialize(initialized, adapter, dev)
               IN  /\ initialized' = ini.initialized
                   /\ adapter' = ini.adapter
                   /\ IF ini.ok
                      THEN PrintMessageStart(0, [IdleTask EXCEPT !.job = SelfTest, !.handler = "none"],
                                             SelfTest)
                      ELSE UNCHANGED <<encoder, tasks, wire>>
  /\ UNCHANGED libVars
  /\ UNCHANGED <<server, blocked, queue, reqs, enqOrder, deqOrder>>

(* ------------------------------ POST /chat ----------------------------- *)
\* A job creation without the placeholder body.
MakeJobLpNoPlaceholder(id, form, converted) ==
  [id |-> id, name |-> OrUndefined(form.name), text |-> OrUndefined(form.text),
   image |-> IF form.image.kind # "none" /\ form.image.size > 0 /\ converted
             THEN form.image.kind ELSE "none"]

\* server.ts 569-596: the job of a parsed form; `converted` is whether
\* image.arrayBuffer() resolved.
MakeJobLp(id, form, converted) ==
  LET imageData == IF form.image.kind # "none" /\ form.image.size > 0 /\ converted
                   THEN form.image.kind ELSE "none"
      text == OrUndefined(form.text)
  IN  [id |-> id, name |-> OrUndefined(form.name),
       text |-> IF ~Truthy(text) /\ imageData = "none" THEN BlankPrint ELSE text,
       image |-> imageData]

\* part_002 81-89: the content of a parsed form.
MakeJobUsb(id, form) ==
  LET image == IF form.image.kind # "none" /\ form.image.size > 0
               THEN form.image.kind ELSE "none"
      text == OrUndefined(form.text)
  IN  [id |-> id, name |-> OrUndefined(form.name),
       text |-> IF ~Truthy(text) /\ image = "none" THEN BlankPrint ELSE text,
       image |-> image]

\* A handler that acknowledges without pushing the job.
RespondOnly(r, job) ==
  /\ UNCHANGED <<queue, enqOrder>>
  /\ reqs' = [reqs EXCEPT ![r] = [pc |-> "done", form |-> NoForm, response |-> "queued"]]

\* queue.push(job); return new Response("queued")
Enqueue(r, job) ==
  /\ queue' = Append(queue, job)
  /\ enqOrder' = Append(enqOrder, job.id)
  /\ reqs' = [reqs EXCEPT ![r] = [pc |-> "done", form |-> NoForm, response |-> "queued"]]

\* A POST /chat request arrives with its body; the handler awaits
\* req.formData().
ChatArrive(r) ==
  /\ booted /\ ~blocked
  /\ reqs[r].pc = "new"
  /\ \A q \in ReqIds : q < r => reqs[q].pc # "new"
  /\ \E form \in Forms : reqs' = [reqs EXCEPT ![r] = [@ EXCEPT !.pc = "parsing", !.form = form]]
  /\ UNCHANGED libVars
  /\ UNCHANGED <<server, booted, blocked, logoBuffer, queue, tasks, initialized,
                 adapter, encoder, wire, enqOrder, deqOrder>>

\* req.formData() resolves with a form.
ChatParsed(r) ==
  /\ ~blocked
  /\ reqs[r].pc = "parsing"
  /\ LET form == reqs[r].form IN
       IF server = "usb"
       THEN IF form.image.kind # "none" /\ form.image.size > MaxUpload
            THEN /\ reqs' = [reqs EXCEPT ![r] =
                               [pc |-> "done", form |-> NoForm, response |-> "400"]]
                 /\ UNCHANGED <<queue, enqOrder>>
            ELSE Enqueue(r, MakeJobUsb(r, form))
       ELSE IF form.image.kind # "none" /\ form.image.size > 0
            THEN /\ reqs' = [reqs EXCEPT ![r] = [@ EXCEPT !.pc = "converting"]]
                 /\ UNCHANGED <<queue, enqOrder>>
            ELSE Enqueue(r, MakeJobLp(r, form, FALSE))
  /\ UNCHANGED libVars
  /\ UNCHANGED <<server, booted, blocked, logoBuffer, tasks, initialized,
                 adapter, encoder, wire, deqOrder>>

\* req.formData() rejects, or (server.ts) its 10 s timeout wins the race.
ChatParseFailed(r) ==
  /\ ~blocked
  /\ reqs[r].pc = "parsing"
  /\ reqs' = [reqs EXCEPT ![r] = [pc |-> "done", form |-> NoForm, response |-> "500"]]
  /\ UNCHANGED libVars
  /\ UNCHANGED <<server, booted, blocked, logoBuffer, queue, tasks, initialized,
                 adapter, encoder, wire, enqOrder, deqOrder>>

\* server.ts 571-586: image.arrayBuffer() settles.
ChatConverted(r) ==
  /\ ~blocked
  /\ reqs[r].pc = "converting"
  /\ Enqueue(r, MakeJobLp(r, reqs[r].form, reqs[r].form.image.kind # "unreadable"))
  /\ UNCHANGED libVars
  /\ UNCHANGED <<server, booted, blocked, logoBuffer, tasks, initialized,
                 adapter, encoder, wire, deqOrder>>

(* ---------------------------- specification ---------------------------- *)
Next ==
  \/ Startup
  \/ Tick
  \/ \E r \in ReqIds : ChatArrive(r)
  \/ \E r \in ReqIds : ChatParsed(r)
  \/ \E r \in ReqIds : ChatParseFailed(r)
  \/ \E r \in ReqIds : ChatConverted(r)
  \/ \E t \in TaskIds : LpLogoDone(t)
  \/ \E t \in TaskIds : LpImageDone(t)
  \/ \E t \in TaskIds : UsbImageDone(t)
  \/ \E t \in TaskIds : UsbXferDone(t)
  \/ \E t \in TaskIds : UsbGapDone(t)
  \/ \E t \in TaskIds : UsbSettleDone(t)
  \/ \E t \in TaskIds : PrintTimeout(t)

vars == <<srvVars, netVars, usbVars, fnVars>>

Spec == Init /\ [][Next]_vars

\* The interval timer keeps firing while the event loop runs; nothing is
\* assumed about how long a device, lp or an image conversion takes.
FairSpec == Spec /\ WF_vars(Tick)


(* ======================================================================= *)
(*                       lib/index.ts: NetworkAdapter                      *)
(* ======================================================================= *)
(* A client calls write() and close() on one NetworkAdapter; the           *)
(* environment is the TCP socket: it connects or fails, reports each write *)
(* through its callback, emits 'error', 'end', 'close' and 'drain'.  The   *)
(* runtime's order of a failed write's callback and the socket's 'error'   *)
(* event is not fixed: both orders are behaviours.                         *)

\* this.socket.destroyed
SockDestroyed(S) == S.socket # 0 /\ S.socks[S.socket].st \in {"broken", "destroyed"}

FreeSocks(S) == {k \in SockIds : S.socks[k].st = "unused"}

ErrClass(code) == IF IsResetClass(code) THEN "reset" ELSE "other"

\* resolve() / reject() of the promise write() returned: the first one wins.
NetResolve(S, c) ==
  IF S.calls[c].promise = "pending" THEN [S EXCEPT !.calls[c].promise = "resolved"] ELSE S

NetReject(S, c) ==
  IF S.calls[c].promise = "pending" THEN [S EXCEPT !.calls[c].promise = "rejected"] ELSE S

\* connect() past its guard: a new socket replaces this.socket, with the
\* once('connect'), once('error'), on('close') and on('end') listeners.
NetNewSocket(S, c, role) ==
  LET k == CHOOSE n \in FreeSocks(S) : \A m \in FreeSocks(S) : n <= m
  IN  [S EXCEPT !.socket = k,
                !.socks[k] = [NoSock EXCEPT !.st = "connecting", !.errL = {ConnErr(k)},
                                            !.connL = TRUE, !.owner = c, !.role = role]]

\* this.socket.write(data, cb) of attempt a (1: first, 2: retry) of call c.
NetSocketWrite(S, c, a) ==
  LET k == S.socket
      U == IF S.socks[k].st \in {"connecting", "open"}
           THEN [S EXCEPT !.socks[k].written = Append(@, c)] ELSE S
      T == [U EXCEPT !.calls[c].sends = @ + 1]
  IN  IF a = 1 THEN [T EXCEPT !.calls[c].a1 = [sock |-> k, st |-> "cb"]]
      ELSE [T EXCEPT !.calls[c].a2 = [sock |-> k, st |-> "cb"], !.calls[c].rec = "writing"]

\* write(), the promise executor: once('error', onError), writeInternal(data).
NetWriteBody(S, c) ==
  NetSocketWrite([S EXCEPT !.socks[S.socket].errL = @ \cup {WriteErr(c)},
                           !.calls[c].pc = "started"], c, 1)

\* What follows the promise of connect() on socket k: write() goes on after
\* `await this.connect()`, or the recovery goes on to its retry.
NetAfterConnect(S, k, ok) ==
  LET c == S.socks[k].owner
  IN  IF S.socks[k].role = "pre"
      THEN IF ok THEN NetWriteBody(S, c)
           ELSE [S EXCEPT !.calls[c].pc = "started", !.calls[c].promise = "rejected"]
      ELSE IF ok THEN NetSocketWrite(S, c, 2)
           ELSE NetReject([S EXCEPT !.calls[c].rec = "connfail"], c)

\* write(), onError(err): err.code is `code` ("none": an Error without code).
NetOnError(S, c, code) ==
  LET T == [S EXCEPT !.connected = FALSE]
  IN  IF IsResetClass(code)
      THEN NetNewSocket([T EXCEPT !.calls[c].rec = "connecting",
                                  !.calls[c].recoveries = @ + 1], c, "rec")
      ELSE NetReject(T, c)

\* connect(), onError(err) of the connect on socket k.
NetConnectOnError(S, k) ==
  LET T == [S EXCEPT !.connected = FALSE,
                     !.socks[S.socket].connL = IF S.socket = k THEN FALSE ELSE @]
  IN  NetAfterConnect(T, k, FALSE)

\* A .catch that hands the socket's own error (with its code) to onError.
NetFirstAttemptDoneKeepsCode(S, c, ok) ==
  LET T == [S EXCEPT !.socks[S.socket].errL = @ \ {WriteErr(c)},
                     !.calls[c].a1.st = IF ok THEN "ok" ELSE "err"]
  IN  IF ok THEN NetResolve(T, c) ELSE NetOnError(T, c, "EPIPE")

\* The first writeInternal of call c settled: the .then / .catch of write().
NetFirstAttemptDone(S, c, ok) ==
  LET T == [S EXCEPT !.socks[S.socket].errL = @ \ {WriteErr(c)},
                     !.calls[c].a1.st = IF ok THEN "ok" ELSE "err"]
  IN  IF ok THEN NetResolve(T, c) ELSE NetOnError(T, c, "none")

\* The retry's writeInternal settled: .then(resolve).catch(reject).
NetRetryDone(S, c, ok) ==
  IF ok THEN NetResolve([S EXCEPT !.calls[c].a2.st = "ok", !.calls[c].rec = "ok"], c)
  ELSE NetReject([S EXCEPT !.calls[c].a2.st = "err", !.calls[c].rec = "writefail"], c)

NetAttemptDone(S, c, a, ok) ==
  IF a = 1 THEN NetFirstAttemptDone(S, c, ok) ELSE NetRetryDone(S, c, ok)

Attempt(S, c, a) == IF a = 1 THEN S.calls[c].a1 ELSE S.calls[c].a2

\* The error listeners of a socket in the order they run.
ListenerSeq(L) ==
  LET conn == {l \in L : l.kind = "connect"}
      wr(c) == IF WriteErr(c) \in L THEN <<WriteErr(c)>> ELSE <<>>
      RECURSIVE writes(_)
      writes(c) == IF c > MaxWrites THEN <<>> ELSE wr(c) \o writes(c + 1)
  IN  (IF conn = {} THEN <<>> ELSE <<CHOOSE l \in conn : TRUE>>) \o writes(1)

RECURSIVE NetRunErrorListeners(_, _, _)
\* emit('error', err) to the once-listeners ls, one after the other.
NetRunErrorListeners(S, ls, code) ==
  IF ls = <<>> THEN S
  ELSE LET l == Head(ls)
           T == IF l.kind = "connect" THEN NetConnectOnError(S, l.id)
                ELSE NetOnError([S EXCEPT !.calls[l.id].fail1 =
                                    IF @ = "none" THEN ErrClass(code) ELSE @],
                                l.id, code)
       IN  NetRunErrorListeners(T, Tail(ls), code)

(* ------------------------ NetworkAdapter: actions ---------------------- *)
NetRuns == server = "net" /\ ~nCrashed

\* connect(): `this.connected && this.socket && !this.socket.destroyed`
NetAlreadyConnected(S) == S.connected /\ S.socket # 0 /\ ~SockDestroyed(S)

\* The client calls write(data): the calls are numbered in call order.
NetWrite(c) ==
  /\ NetRuns
  /\ nCalls[c].pc = "idle"
  /\ \A b \in CallIds : b < c => nCalls[b].pc # "idle"
  /\ LET S == [NetState EXCEPT !.calls[c].promise = "pending"]
     IN  IF ~S.connected \/ SockDestroyed(S)
         THEN /\ ~NetAlreadyConnected(S)
              /\ FreeSocks(S) # {}
              /\ NetSet(NetNewSocket([S EXCEPT !.calls[c].pc = "preconnect"], c, "pre"))
         ELSE NetSet(NetWriteBody(S, c))
  /\ UNCHANGED nCloses
  /\ UNCHANGED srvVars
  /\ UNCHANGED usbVars
  /\ UNCHANGED fnVars

\* Socket k emits 'connect'.
SockConnected(k) ==
  /\ NetRuns
  /\ nSocks[k].st = "connecting"
  /\ LET S == [NetState EXCEPT !.socks[k].st = "open"]
     IN  IF S.socks[k].connL
         THEN NetSet(NetAfterConnect(
                [S EXCEPT !.connected = TRUE, !.socks[k].connL = FALSE,
                          !.socks[S.socket].errL = @ \ {ConnErr(k)}], k, TRUE))
         ELSE NetSet(S)
  /\ UNCHANGED nCloses
  /\ UNCHANGED srvVars
  /\ UNCHANGED usbVars
  /\ UNCHANGED fnVars

\* Socket k emits 'error': a connect that fails, a connection that breaks,
\* or the event owed after a write's callback reported the error.  Without
\* a listener the event is an uncaught exception.
SockError(k) ==
  /\ NetRuns
  /\ nSocks[k].st \in {"connecting", "open", "broken"}
  /\ \E code \in Codes :
       /\ nSocks[k].st = "broken" => code = nSocks[k].err
       /\ IsResetClass(code) =>
            Cardinality({l \in nSocks[k].errL : l.kind = "write"})
              <= Cardinality(FreeSocks(NetState))
       /\ LET S == [NetState EXCEPT !.socks[k].st = "destroyed", !.socks[k].closeOwed = TRUE,
                                    !.socks[k].err = "none", !.socks[k].errL = {}]
              ls == ListenerSeq(nSocks[k].errL)
          IN  IF ls = <<>> THEN NetSet([S EXCEPT !.crashed = TRUE])
              ELSE NetSet(NetRunErrorListeners(S, ls, code))
  /\ UNCHANGED nCloses
  /\ UNCHANGED srvVars
  /\ UNCHANGED usbVars
  /\ UNCHANGED fnVars

\* Socket k emits 'close' after it was destroyed: on('close').
SockClose(k) ==
  /\ NetRuns
  /\ nSocks[k].st = "destroyed" /\ nSocks[k].closeOwed
  /\ NetSet([NetState EXCEPT !.connected = FALSE, !.socks[k].closeOwed = FALSE])
  /\ UNCHANGED nCloses
  /\ UNCHANGED srvVars
  /\ UNCHANGED usbVars
  /\ UNCHANGED fnVars

\* The peer ends the connection of socket k: on('end'); the socket closes.
SockEnd(k) ==
  /\ NetRuns
  /\ nSocks[k].st = "open"
  /\ NetSet([NetState EXCEPT !.connected = FALSE, !.socks[k].st = "destroyed",
                             !.socks[k].closeOwed = TRUE])
  /\ UNCHANGED nCloses
  /\ UNCHANGED srvVars
  /\ UNCHANGED usbVars
  /\ UNCHANGED fnVars

\* The client calls close().
NetClose ==
  /\ NetRuns
  /\ nCloses < MaxCloses
  /\ nCloses' = nCloses + 1
  /\ LET S == [NetState EXCEPT !.connected = FALSE]
     IN  IF S.socket # 0 /\ S.socks[S.socket].st \in {"connecting", "open"}
         THEN NetSet([S EXCEPT !.socks[S.socket].st = "destroyed",
                               !.socks[S.socket].closeOwed = TRUE])
         ELSE NetSet(S)
  /\ UNCHANGED srvVars
  /\ UNCHANGED usbVars
  /\ UNCHANGED fnVars

WriteResults == {"ok", "needDrain", "fail"}

\* The callback of socket.write of attempt a of call c runs.
WriteCb(c, a) ==
  /\ NetRuns
  /\ Attempt(NetState, c, a).st = "cb"
  /\ LET k == Attempt(NetState, c, a).sock
         failed(S, code) ==
           NetAttemptDone([S EXCEPT !.calls[c].fail1 =
                              IF a = 1 /\ @ = "none" THEN ErrClass(code) ELSE @],
                          c, a, FALSE)
     IN  \E res \in WriteResults :
           IF nSocks[k].st = "open"
           THEN IF res = "ok" THEN NetSet(NetAttemptDone(NetState, c, a, TRUE))
                ELSE IF res = "needDrain"
                THEN NetSet(IF a = 1 THEN [NetState EXCEPT !.calls[c].a1.st = "drain"]
                            ELSE [NetState EXCEPT !.calls[c].a2.st = "drain"])
                ELSE \E code \in Codes :
                       NetSet(failed([NetState EXCEPT !.socks[k].st = "broken",
                                                      !.socks[k].err = code], code))
           ELSE /\ nSocks[k].st \in {"broken", "destroyed"}
                /\ res = "fail"
                /\ NetSet(failed(NetState, nSocks[k].err))
  /\ UNCHANGED nCloses
  /\ UNCHANGED srvVars
  /\ UNCHANGED usbVars
  /\ UNCHANGED fnVars

\* The socket of a waiting attempt emits 'drain'.
NetDrain(c, a) ==
  /\ NetRuns
  /\ Attempt(NetState, c, a).st = "drain"
  /\ nSocks[Attempt(NetState, c, a).sock].st = "open"
  /\ NetSet(NetAttemptDone(NetState, c, a, TRUE))
  /\ UNCHANGED nCloses
  /\ UNCHANGED srvVars
  /\ UNCHANGED usbVars
  /\ UNCHANGED fnVars

\* The 5 s drain timeout of a waiting attempt fires.
NetDrainTimeout(c, a) ==
  /\ NetRuns
  /\ Attempt(NetState, c, a).st = "drain"
  /\ NetSet(NetAttemptDone(NetState, c, a, TRUE))
  /\ UNCHANGED nCloses
  /\ UNCHANGED srvVars
  /\ UNCHANGED usbVars
  /\ UNCHANGED fnVars

InitNet ==
  /\ server = "net"
  /\ booted = FALSE
  /\ blocked = FALSE
  /\ logoBuffer = "none"
  /\ queue = <<>>
  /\ reqs = [r \in ReqIds |-> NewReq]
  /\ tasks = [t \in TaskIds |-> IdleTask]
  /\ initialized = FALSE
  /\ adapter = "null"
  /\ encoder = <<>>
  /\ sentOrder = <<>>
  /\ lastSent = NoData
  /\ enqOrder = <<>>
  /\ deqOrder = <<>>
  /\ NetInit
  /\ UsbInit
  /\ FnInit

NetNext ==
  \/ \E c \in CallIds : NetWrite(c)
  \/ \E k \in SockIds : SockConnected(k)
  \/ \E k \in SockIds : SockError(k)
  \/ \E k \in SockIds : SockClose(k)
  \/ \E k \in SockIds : SockEnd(k)
  \/ NetClose
  \/ \E c \in CallIds : \E a \in {1, 2} : WriteCb(c, a)
  \/ \E c \in CallIds : \E a \in {1, 2} : NetDrain(c, a)
  \/ \E c \in CallIds : \E a \in {1, 2} : NetDrainTimeout(c, a)

SpecNet == InitNet /\ [][NetNext]_vars

\* The drain timer of writeInternal fires when its 5 s are over; nothing is
\* assumed about the socket, the peer or the client.
FairSpecNet ==
  SpecNet /\ \A c \in CallIds : \A a \in {1, 2} : WF_vars(NetDrainTimeout(c, a))

(* ======================================================================= *)
(*                        lib/index.ts: USBAdapter                         *)
(* ======================================================================= *)
(* A client calls connect() and close() on one USBAdapter whose            *)
(* constructor found the device; the environment decides whether           *)
(* device.open() works and which interfaces refuse to be claimed.          *)

\* (ep.bEndpointAddress & 0x80) === 0 && (ep.bmAttributes & 0x03) === 2
IsBulkOut(ep) == (ep.addr \div 128) % 2 = 0 /\ ep.attr % 4 = 2

\* setting.endpoints.some(bulk OUT)
HasBulkOut(setting) == \E j \in 1..Len(setting.eps) : IsBulkOut(setting.eps[j])

\* setting.endpoints.find(bulk OUT): the first one.
FirstBulkOut(setting) ==
  setting.eps[CHOOSE j \in 1..Len(setting.eps) :
                /\ IsBulkOut(setting.eps[j])
                /\ \A i \in 1..(j - 1) : ~IsBulkOut(setting.eps[i])]

\* vendor-specific (255) = 1, other classes = 2, printer class (7) = 3
Priority(class) == IF class = 255 THEN 1 ELSE IF class # 7 THEN 2 ELSE 3

IsCandidate(c) == HasBulkOut(c.setting)

\* The candidates pushed by the loop over config.interfaces, in
\* descriptor order.
Candidates(config) ==
  SelectSeq([i \in 1..Len(config) |->
               [index |-> i - 1, setting |-> config[i],
                priority |-> Priority(config[i].class)]],
            IsCandidate)

\* Candidates left in descriptor order.
DescriptorOrder(cands) == cands

RECURSIVE InsertByPriority(_, _)
\* c placed behind every element whose priority is not greater than its own.
InsertByPriority(sorted, c) ==
  IF sorted = <<>> THEN <<c>>
  ELSE IF Head(sorted).priority <= c.priority
       THEN <<Head(sorted)>> \o InsertByPriority(Tail(sorted), c)
       ELSE <<c>> \o sorted

RECURSIVE SortFrom(_, _)
SortFrom(sorted, rest) ==
  IF rest = <<>> THEN sorted
  ELSE SortFrom(InsertByPriority(sorted, Head(rest)), Tail(rest))

\* candidates.sort((a, b) => a.priority - b.priority): a stable sort.
SortCandidates(cands) == SortFrom(<<>>, cands)

\* The adapter and its device as one value, for the claim loop.
UsbState ==
  [interface |-> uInterface, endpoint |-> uEndpoint, claimed |-> uClaimed,
   tried |-> <<>>, claimCalls |-> uClaimCalls, result |-> "failed"]

\* A claim loop that gives up when the first candidate cannot be claimed.
FirstCandidateOnly(cands, busy, U) ==
  IF cands = <<>> THEN U
  ELSE LET num == Head(cands).setting.num
           T == [U EXCEPT !.tried = Append(@, num), !.claimCalls = @ + 1]
       IN  IF num \in busy /\ num \notin U.claimed
           THEN [T EXCEPT !.interface = -1]
           ELSE [T EXCEPT !.interface = num, !.claimed = @ \cup {num},
                          !.endpoint = FirstBulkOut(Head(cands).setting).addr,
                          !.result = "ok"]

RECURSIVE ClaimLoop(_, _, _)
\* for (const candidate of candidates): claim() throws for the interfaces
\* in busy; after a throw the interface is released and the loop goes on;
\* the first claim that works selects the endpoint and returns.
ClaimLoop(cands, busy, U) ==
  IF cands = <<>> THEN U
  ELSE LET setting == Head(cands).setting
           num == setting.num
           T == [U EXCEPT !.tried = Append(@, num), !.claimCalls = @ + 1]
       IN  IF num \in busy /\ num \notin U.claimed
           THEN ClaimLoop(Tail(cands), busy,
                          [T EXCEPT !.interface = -1, !.claimed = @ \ {num}])
           ELSE IF HasBulkOut(setting)
           THEN [T EXCEPT !.interface = num, !.claimed = @ \cup {num},
                          !.endpoint = FirstBulkOut(setting).addr, !.result = "ok"]
           ELSE ClaimLoop(Tail(cands), busy, [T EXCEPT !.interface = -1])

UsbRuns == server = "usbadapter"

\* The client calls connect().
UsbConnect ==
  /\ UsbRuns
  /\ uCalls < MaxUsbCalls
  /\ uCalls' = uCalls + 1
  /\ uOpenCalls' = uOpenCalls + 1
  /\ \E openOk \in BOOLEAN : \E busy \in SUBSET IfaceNums :
       IF ~openOk /\ ~uDevOpen
       THEN /\ busy = {}
            /\ uResult' = "failed"
            /\ uTried' = <<>>
            /\ UNCHANGED <<uDevOpen, uClaimCalls, uClaimed, uInterface, uEndpoint>>
       ELSE /\ openOk
            /\ LET U == ClaimLoop(SortCandidates(Candidates(uConfig)), busy, UsbState)
               IN  /\ uDevOpen' = TRUE
                   /\ uClaimCalls' = U.claimCalls
                   /\ uClaimed' = U.claimed
                   /\ uInterface' = U.interface
                   /\ uEndpoint' = U.endpoint
                   /\ uTried' = U.tried
                   /\ uResult' = U.result
  /\ UNCHANGED <<uConfig, uCloseCalls, uDevCloseCalls, uCloseThrew>>
  /\ UNCHANGED srvVars
  /\ UNCHANGED netVars
  /\ UNCHANGED fnVars

\* A close() whose release and device close share one try block.
UsbCloseOneTry(releaseThrows, closeThrows) ==
  IF uInterface # -1 /\ releaseThrows
  THEN [claimed |-> uClaimed, devOpen |-> uDevOpen, devCloseCalls |-> uDevCloseCalls,
        threw |-> FALSE]
  ELSE [claimed |-> IF closeThrows THEN uClaimed \ {uInterface} ELSE {},
        devOpen |-> IF closeThrows THEN uDevOpen ELSE FALSE,
        devCloseCalls |-> uDevCloseCalls + 1, threw |-> FALSE]

\* The body of close(): try { interface?.release() } catch {}, then
\* try { device?.close() } catch {}.  A device close that works ends every
\* claim on the handle.
UsbCloseBody(releaseThrows, closeThrows) ==
  LET released == IF uInterface # -1 /\ ~releaseThrows
                  THEN uClaimed \ {uInterface} ELSE uClaimed
  IN  [claimed |-> IF closeThrows THEN released ELSE {},
       devOpen |-> IF closeThrows THEN uDevOpen ELSE FALSE,
       devCloseCalls |-> uDevCloseCalls + 1, threw |-> FALSE]

\* The client calls close(); the environment decides whether
\* interface.release() and device.close() throw.
UsbClose ==
  /\ UsbRuns
  /\ uCalls < MaxUsbCalls
  /\ uCalls' = uCalls + 1
  /\ uCloseCalls' = uCloseCalls + 1
  /\ \E releaseThrows, closeThrows \in BOOLEAN :
       LET R == UsbCloseBody(releaseThrows, closeThrows)
       IN  /\ uDevOpen' = R.devOpen
           /\ uClaimed' = R.claimed
           /\ uDevCloseCalls' = R.devCloseCalls
           /\ uCloseThrew' = (uCloseThrew \/ R.threw)
  /\ UNCHANGED <<uConfig, uOpenCalls, uClaimCalls, uInterface, uEndpoint, uTried, uResult>>
  /\ UNCHANGED srvVars
  /\ UNCHANGED netVars
  /\ UNCHANGED fnVars

InitUsb ==
  /\ server = "usbadapter"
  /\ booted = FALSE
  /\ blocked = FALSE
  /\ logoBuffer = "none"
  /\ queue = <<>>
  /\ reqs = [r \in ReqIds |-> NewReq]
  /\ tasks = [t \in TaskIds |-> IdleTask]
  /\ initialized = FALSE
  /\ adapter = "null"
  /\ encoder = <<>>
  /\ sentOrder = <<>>
  /\ lastSent = NoData
  /\ enqOrder = <<>>
  /\ deqOrder = <<>>
  /\ NetInit
  /\ uConfig \in Configs
  /\ uDevOpen = FALSE
  /\ uOpenCalls = 0
  /\ uClaimCalls = 0
  /\ uClaimed = {}
  /\ uInterface = -1
  /\ uEndpoint = -1
  /\ uTried = <<>>
  /\ uResult = "none"
  /\ uCalls = 0
  /\ uCloseCalls = 0
  /\ uDevCloseCalls = 0
  /\ uCloseThrew = FALSE
  /\ FnInit

UsbNext ==
  \/ UsbConnect
  \/ UsbClose

SpecUsb == InitUsb /\ [][UsbNext]_vars

(* ======================================================================= *)
(*                 lib functions a client calls on their own               *)
(* ======================================================================= *)
\* A client works with library objects it has just constructed; a function
\* that keeps no state is called once.
FnRuns == server = "lib"

\* Buffers a client hands to USBAdapter.write: a prefix, then nothing, a
\* whole GS v 0 command, one whose header announces more bitmap bytes than
\* follow, or one whose header is cut short, then a suffix.
WritePrefixes == {<<>>, Ann, Long}
WriteMiddles ==
  {<<>>, RasterCommand(8, 2), RasterCommand(384, 1) \o RasterCommand(8, 1),
   <<GS, 118, 48, 0, 2, 0, 1, 0, 255>>, <<GS, 118, 48>>, <<GS, 118, 48, 0, 1, 0>>}
WriteSuffixes == {<<>>, <<LF>>, Long \o Long}
WriteBuffers ==
  {p \o m \o x : p \in WritePrefixes, m \in WriteMiddles, x \in WriteSuffixes}

\* write(data) runs with every transfer succeeding: fnRes is the sequence of
\* chunks handed to endpoint.transfer.
CallUsbWrite ==
  /\ FnRuns /\ fnName = "none"
  /\ \E data \in WriteBuffers :
       /\ fnName' = "write"
       /\ fnArg' = data
       /\ fnRes' = UsbChunks(data)
  /\ UNCHANGED srvVars
  /\ UNCHANGED netVars
  /\ UNCHANGED usbVars

\* The fragments print(job) of server.ts pushes, from the reset to the cut,
\* when lp accepts them; logo is the state of the logo file.
PrintParts(job, logo) ==
  LET start == PrintNameLogoStart(job, logo # "none")
      named == IF start.wait # "none"
               THEN PrintAfterLogo(start.parts, job, start.wait, processLogo(logo = "good"))
               ELSE start.parts
      withText == PrintText(named, job)
      withImage == IF HasImage(job)
                   THEN PrintAfterImage(PrintImageStart(withText), processImage(job.image))
                   ELSE withText
  IN  PrintTrailer(withImage)

\* The fragments formatMessage(content) of lib appends to its encoder.
FormatParts(content) ==
  IF HasImage(content)
  THEN FormatAfterImage(FormatStart(<<>>, content), LibProcessImage(content.image))
  ELSE FormatStart(<<>>, content)

\* print(job) runs on its own: fnRes is the list `parts`.
CallPrint ==
  /\ FnRuns /\ fnName = "none"
  /\ \E form \in Forms : \E converted \in BOOLEAN :
     \E logo \in {"none", "good", "corrupt"} :
       LET job == MakeJobLp(1, form, converted)
       IN  /\ fnName' = "print"
           /\ fnArg' = job
           /\ fnRes' = PrintParts(job, logo)
  /\ UNCHANGED srvVars
  /\ UNCHANGED netVars
  /\ UNCHANGED usbVars

\* formatMessage(content) runs on its own: fnRes is the encoder's buffer list.
CallFormatMessage ==
  /\ FnRuns /\ fnName = "none"
  /\ \E form \in Forms :
       LET content == MakeJobUsb(1, form)
       IN  /\ fnName' = "formatMessage"
           /\ fnArg' = content
           /\ fnRes' = FormatParts(content)
  /\ UNCHANGED srvVars
  /\ UNCHANGED netVars
  /\ UNCHANGED usbVars

\* Sizes of the decoded picture handed to the bit packing: widths around
\* the byte boundaries, and one picture taller than a 16-bit height.
RasterDims ==
  {[w |-> w, h |-> h] : w \in {1, 7, 8, 9, 17}, h \in {1, 2, 3}}
  \cup {[w |-> 1, h |-> 256 * 256]}

\* convertToBitmap(png) runs on its own: fnRes is the raster fragment.
CallConvertToBitmap ==
  /\ FnRuns /\ fnName = "none"
  /\ \E png \in RasterDims :
       /\ fnName' = "convertToBitmap"
       /\ fnArg' = png
       /\ fnRes' = RasterCommand(png.w, png.h)
  /\ UNCHANGED srvVars
  /\ UNCHANGED netVars
  /\ UNCHANGED usbVars

\* The calls a client makes on an ESCPOSEncoder, and the fragments it may
\* hold before the client stops appending.
MaxFragments == 2
NoOp == [op |-> "none", bytes |-> <<>>, n |-> 0, m |-> 0, on |-> FALSE, pos |-> "left"]
EncOps ==
  {[NoOp EXCEPT !.op = "init"],
   [NoOp EXCEPT !.op = "text", !.bytes = Hi],
   [NoOp EXCEPT !.op = "text"],
   [NoOp EXCEPT !.op = "newline", !.n = 1],
   [NoOp EXCEPT !.op = "newline", !.n = 6],
   [NoOp EXCEPT !.op = "align", !.pos = "center"],
   [NoOp EXCEPT !.op = "bold", !.on = TRUE],
   [NoOp EXCEPT !.op = "size", !.n = 2, !.m = 2],
   [NoOp EXCEPT !.op = "size", !.n = 9],
   [NoOp EXCEPT !.op = "image", !.bytes = RasterCommand(8, 1)],
   [NoOp EXCEPT !.op = "cut"]}

ApplyEncOp(buffer, o) ==
  CASE o.op = "init" -> EncInit(buffer)
    [] o.op = "text" -> EncText(buffer, o.bytes)
    [] o.op = "newline" -> EncNewline(buffer, o.n)
    [] o.op = "align" -> EncAlign(buffer, o.pos)
    [] o.op = "bold" -> EncBold(buffer, o.on)
    [] o.op = "size" -> EncSize(buffer, o.n, o.m)
    [] o.op = "image" -> EncImage(buffer, o.bytes)
    [] o.op = "cut" -> EncCut(buffer)

EncoderRuns == FnRuns /\ fnName \in {"none", "encoder"}

\* The client calls one of the appending operations of its encoder.
EncoderAppend ==
  /\ EncoderRuns
  /\ Len(encoder) < MaxFragments
  /\ \E o \in EncOps :
       /\ encoder' = ApplyEncOp(encoder, o)
       /\ fnArg' = o
  /\ fnName' = "encoder"
  /\ UNCHANGED fnRes
  /\ UNCHANGED <<server, booted, blocked, logoBuffer, queue, reqs, tasks, initialized,
                 adapter, wire, enqOrder, deqOrder>>
  /\ UNCHANGED netVars
  /\ UNCHANGED usbVars

\* The client calls getBuffer(): fnRes is the buffer returned.
EncoderGetBuffer ==
  /\ EncoderRuns
  /\ fnName' = "encoder"
  /\ fnArg' = [NoOp EXCEPT !.op = "getBuffer"]
  /\ fnRes' = EncGetBuffer(encoder)
  /\ UNCHANGED srvVars
  /\ UNCHANGED netVars
  /\ UNCHANGED usbVars

\* The client calls clear().
EncoderClear ==
  /\ EncoderRuns
  /\ fnName' = "encoder"
  /\ fnArg' = [NoOp EXCEPT !.op = "clear"]
  /\ encoder' = EncClear(encoder)
  /\ UNCHANGED fnRes
  /\ UNCHANGED <<server, booted, blocked, logoBuffer, queue, reqs, tasks, initialized,
                 adapter, wire, enqOrder, deqOrder>>
  /\ UNCHANGED netVars
  /\ UNCHANGED usbVars

\* part_003 processImage, the resize: a portrait picture is always resized
\* to the printer width; a landscape one when it is wider than the printer
\* width or at least 0.7 of it, and is left as it is otherwise.
Part3Resize(png) ==
  IF png.h > png.w THEN SharpResize(png, printerWidth)
  ELSE IF png.w > printerWidth THEN SharpResize(png, printerWidth)
  ELSE IF 10 * png.w >= 7 * printerWidth THEN SharpResize(png, printerWidth)
  ELSE png

\* The three resize steps of the repository and their target widths.
ResizeImpls == {"server", "part_003", "lib"}
TargetWidth(impl) == IF impl = "lib" THEN MAX_WIDTH ELSE printerWidth
Resize(impl, png) ==
  CASE impl = "server" -> SharpResize(png, printerWidth)
    [] impl = "part_003" -> Part3Resize(png)
    [] impl = "lib" -> LibResize(png)

\* Sizes of the uploaded picture, after decoding.
ResizeDims ==
  {[w |-> w, h |-> h] : w \in {100, 300, 384, 404, 500, 576, 1000}, h \in {100, 400, 2000}}

\* The resize step of processImage runs on its own: fnRes is the size of
\* the picture handed to the bit packing.
CallResize ==
  /\ FnRuns /\ fnName = "none"
  /\ \E impl \in ResizeImpls : \E png \in ResizeDims :
       /\ fnName' = "resize"
       /\ fnArg' = [impl |-> impl, png |-> png]
       /\ fnRes' = Resize(impl, png)
  /\ UNCHANGED srvVars
  /\ UNCHANGED netVars
  /\ UNCHANGED usbVars

InitFn ==
  /\ server = "lib"
  /\ booted = FALSE
  /\ blocked = FALSE
  /\ logoBuffer = "none"
  /\ queue = <<>>
  /\ reqs = [r \in ReqIds |-> NewReq]
  /\ tasks = [t \in TaskIds |-> IdleTask]
  /\ initialized = FALSE
  /\ adapter = "null"
  /\ encoder = <<>>
  /\ sentOrder = <<>>
  /\ lastSent = NoData
  /\ enqOrder = <<>>
  /\ deqOrder = <<>>
  /\ NetInit
  /\ UsbInit
  /\ FnInit

FnNext ==
  \/ CallUsbWrite
  \/ CallPrint
  \/ CallFormatMessage
  \/ CallConvertToBitmap
  \/ EncoderAppend
  \/ EncoderGetBuffer
  \/ EncoderClear
  \/ CallResize

SpecFn == InitFn /\ [][FnNext]_vars

(* ======================================================================= *)
(*                               The claims                                *)
(* ======================================================================= *)
\* The ids of the queued jobs, oldest first.
QueueIds == [i \in 1..Len(queue) |-> queue[i].id]

\* Position of x in a sequence without repetitions (0 when absent).
Pos(seq, x) == IF x \in Range(seq) THEN CHOOSE i \in 1..Len(seq) : seq[i] = x ELSE 0

\* The print of dequeued job t has started and not yet completed
\* (rasterization, encoding or the transport write is still going on).
InPipeline(t) == tasks[t].pc \in {"logo", "image", "xfer", "gap", "settle"}

\* USBAdapter.write of task t has handed over its first chunk and its last
\* chunk has not completed.
MidWrite(t) == tasks[t].pc \in {"xfer", "gap"}

\* C1: at most one dequeued job is in the print pipeline at any time: no tick
\* starts printing a job while the print of an earlier job has not completed.
C1_OneJobInPipeline ==
  \A a, b \in ReqIds : a # b => ~(InPipeline(a) /\ InPipeline(b))

\* C2: the printer never receives two overlapping jobs: while one write
\* (of a job or of the startup self-test) is between its first and its last
\* chunk, no chunk of another buffer is transferred.
C2_NoOverlappingWrites ==
  \A a, b \in TaskIds : a # b => ~(MidWrite(a) /\ MidWrite(b))

\* C3: jobs leave the queue in exactly the order in which they were enqueued;
\* a step that dequeues removes exactly the oldest job, and while the queue is
\* empty nothing is dequeued and no print starts.
C3_FifoDrain ==
  /\ [](enqOrder = deqOrder \o QueueIds)
  /\ [][/\ deqOrder' # deqOrder =>
             /\ Len(queue) > 0
             /\ queue' = Tail(queue)
             /\ deqOrder' = Append(deqOrder, Head(queue).id)
             /\ tasks'[Head(queue).id].job = Head(queue)
        /\ Len(queue) = 0 =>
             /\ deqOrder' = deqOrder
             /\ \A t \in ReqIds : tasks[t].handler = "idle" => tasks'[t].handler = "idle"
      ]_vars

\* C3 witness: two jobs were enqueued and both have been dequeued.
C3_Witness == Len(deqOrder) = 2 /\ Len(enqOrder) = 2 /\ queue = <<>>

\* C4: jobs print in submission order: of two jobs whose command buffers were
\* handed to the transport, the one enqueued first was handed over first.
C4_PrintInSubmissionOrder ==
  \A a, b \in ReqIds :
    (/\ a \in Range(sentOrder) /\ b \in Range(sentOrder)
     /\ Pos(enqOrder, a) < Pos(enqOrder, b))
    => Pos(sentOrder, a) < Pos(sentOrder, b)


\* C5: a stalled job does not block the queue forever: whatever happens to
\* the print of a dequeued job, every queued job is eventually dequeued.
C5_QueueDrains ==
  \A r \in ReqIds : (r \in Range(QueueIds)) ~> (r \notin Range(QueueIds))

\* The print of job t ended in a failure the tick handler survives.
PrintFailed(t) == tasks[t].outcome \in {"error", "timeout", "initfail"}

\* C6: a dequeued job is attempted at most once and never queued again,
\* whatever the outcome of its print, and a failed print does not stop the
\* timer: with a job waiting behind a failed print the tick can fire, unless
\* the event loop itself is stuck inside an lp that never returns (C5).
C6_NoRetryTimerGoesOn ==
  /\ \A i, j \in 1..Len(deqOrder) : i # j => deqOrder[i] # deqOrder[j]
  /\ \A i, j \in 1..Len(enqOrder) : i # j => enqOrder[i] # enqOrder[j]
  /\ Range(deqOrder) \cap Range(QueueIds) = {}
  /\ ((\E t \in ReqIds : PrintFailed(t)) /\ Len(queue) > 0 /\ ~blocked)
       => ENABLED <<Tick>>_vars

\* C6 witness: a print failed and a job dequeued after it printed.
C6_Witness ==
  \E a, b \in ReqIds :
    /\ PrintFailed(a) /\ tasks[b].outcome = "ok"
    /\ Pos(deqOrder, a) < Pos(deqOrder, b)

\* The buffer of a job holds the job's name and text and the annotation.
KeepsNameAndText(data, job, annotation) ==
  /\ data # <<>>
  /\ Truthy(job.name) => Contains(data, job.name)
  /\ Truthy(job.text) => Contains(data, job.text)
  /\ Contains(data, annotation)

\* The image of the job cannot be decoded or read.
ImageFails(job) == job.image \in {"bad", "unreadable"}

\* C7: a job whose image fails to decode still hands the transport a
\* non-empty buffer with its name, its text and an error annotation, and its
\* print fails only if the transport does.
C7_ImageFailureKeepsText ==
  \A t \in ReqIds :
    ImageFails(tasks[t].job) =>
      /\ (server = "usb" /\ MidWrite(t))
           => KeepsNameAndText(tasks[t].commands, tasks[t].job, ImageError)
      /\ (server = "lp" /\ lastSent.task = t)
           => KeepsNameAndText(lastSent.data, tasks[t].job, ImageProcessingError)
      /\ tasks[t].outcome = "error" => t \in Range(sentOrder)

\* The form has neither a non-empty text nor a non-empty image that is
\* readable.
NoReadableContent(form) ==
  /\ ~Truthy(form.text)
  /\ \/ form.image.kind = "none"
     \/ form.image.size = 0
     \/ form.image.kind = "unreadable"

\* C8 as stated: every queued job has a text or an image, and a submission
\* with neither a non-empty text nor a non-empty readable image is enqueued
\* with the text "blank print", on either server.
C8_BlankPrintUnlessReadable ==
  /\ [](\A i \in 1..Len(queue) : Truthy(queue[i].text) \/ HasImage(queue[i]))
  /\ [][\A r \in ReqIds :
          (reqs[r].pc # "done" /\ reqs'[r].response = "queued"
           /\ NoReadableContent(reqs[r].form))
          => /\ Len(queue') = Len(queue) + 1
             /\ queue'[Len(queue')].text = BlankPrint
             /\ queue'[Len(queue')].image = "none"
      ]_vars

\* The form has neither a non-empty text nor a non-empty image the server
\* takes over: server.ts reads the upload while it handles the request and
\* drops one it cannot read; part_002 queues the File itself, unread.
NoContent(form) ==
  /\ ~Truthy(form.text)
  /\ \/ form.image.kind = "none"
     \/ form.image.size = 0
     \/ server = "lp" /\ form.image.kind = "unreadable"

\* C8, amended: every queued job has a text or an image, and a submission
\* without a non-empty text and without a non-empty image (in server.ts:
\* without one that could be converted) is enqueued with the text
\* "blank print"; part_002 enqueues a non-empty upload as the job's image
\* whether or not it can be read later.
C8_BlankPrint ==
  /\ [](\A i \in 1..Len(queue) : Truthy(queue[i].text) \/ HasImage(queue[i]))
  /\ [][\A r \in ReqIds :
          (reqs[r].pc # "done" /\ reqs'[r].response = "queued" /\ NoContent(reqs[r].form))
          => /\ Len(queue') = Len(queue) + 1
             /\ queue'[Len(queue')].text = BlankPrint
             /\ queue'[Len(queue')].image = "none"
      ]_vars

\* C8 witness: on each server a job with the placeholder body is queued, and
\* on part_002 an unreadable upload is queued as a job's image.
C8_Witness ==
  \E i \in 1..Len(queue) :
    \/ queue[i].text = BlankPrint /\ server = "lp" /\ reqs[queue[i].id].pc = "done"
    \/ server = "usb" /\ queue[i].image = "unreadable" /\ ~Truthy(queue[i].text)

\* C9 (server.ts): a request whose form parsed gets "queued" and exactly one
\* job in the queue, before any print of the job; a request whose form did
\* not parse gets status 500 and leaves the queue alone.
C9_ImmediateAck ==
  /\ [](server = "lp" =>
          \A r \in ReqIds :
            /\ reqs[r].pc = "done" => reqs[r].response \in {"queued", "500"}
            /\ reqs[r].response = "queued" <=> r \in Range(enqOrder)
            /\ r \in Range(deqOrder) => reqs[r].response = "queued")
  /\ [][server = "lp" =>
          \A r \in ReqIds :
            /\ (reqs[r].pc = "converting" /\ reqs'[r].pc # "converting")
                 => reqs'[r].response = "queued"
            /\ (reqs[r].response # "queued" /\ reqs'[r].response = "queued")
                 => /\ Len(queue') = Len(queue) + 1
                    /\ SubSeq(queue', 1, Len(queue)) = queue
                    /\ queue'[Len(queue')].id = r
            /\ (reqs[r].response # "500" /\ reqs'[r].response = "500")
                 => queue' = queue /\ reqs[r].pc = "parsing"
      ]_vars

\* C9 witness: a job whose upload was converted while the request was handled
\* has been acknowledged and, later, dequeued.
C9_Witness ==
  /\ server = "lp"
  /\ \E r \in ReqIds :
       /\ reqs[r].response = "queued" /\ r \in Range(deqOrder)
       /\ HasImage(tasks[r].job)

\* C10: when a write() fails with a reset-class error (EPIPE, ECONNRESET,
\* ENOTCONN) the adapter reconnects and retries once, and write() settles as
\* that retry does: it resolves only if the retry succeeded and rejects only
\* if the reconnect or the retry failed.
C10_RetryDecidesOutcome ==
  \A c \in CallIds :
    nCalls[c].fail1 = "reset" =>
      /\ nCalls[c].recoveries <= 1
      /\ nCalls[c].promise = "rejected" => nCalls[c].rec \in {"connfail", "writefail"}
      /\ nCalls[c].promise = "resolved" => nCalls[c].rec = "ok"

\* C11: no unbounded retry: one write() call makes at most one recovery
\* reconnect and hands the buffer to a socket at most twice, whatever
\* write-callback errors and socket 'error' events occur.
C11_BoundedRetry ==
  \A c \in CallIds : nCalls[c].recoveries <= 1 /\ nCalls[c].sends <= 2

\* C11 witness: a write() recovered once and sent its buffer a second time.
C11_Witness ==
  \E c \in CallIds : nCalls[c].recoveries = 1 /\ nCalls[c].sends = 2

\* Call c hands its buffer to a socket for the first time in this step.
FirstSend(c) == nCalls[c].sends = 0 /\ nCalls'[c].sends = 1

\* C12: a write() issued while the adapter is not connected first
\* establishes a connection and only then sends: it sends nothing in the
\* step of the call, the socket it first writes to is connected, and when
\* its connect fails it rejects without having handed any byte to a socket.
C12_ConnectsBeforeSending ==
  [][\A c \in CallIds :
       /\ (nCalls[c].pc = "idle" /\ nCalls'[c].pc # "idle" /\ ~nConnected)
            => nCalls'[c].pc = "preconnect" /\ nCalls'[c].sends = 0
       /\ (nCalls[c].pc = "preconnect" /\ FirstSend(c))
            => nSocks'[nCalls'[c].a1.sock].st = "open"
       /\ (nCalls[c].pc = "preconnect" /\ nCalls'[c].promise = "rejected")
            => /\ nCalls'[c].sends = 0
               /\ \A k \in SockIds : c \notin Range(nSocks'[k].written)
    ]_vars

\* How far attempt a of call c is.
AttemptSt(c, a) == Attempt(NetState, c, a).st

\* C13: a writeInternal completes only after the socket's write callback
\* has fired and, when the socket reported back-pressure, after the 'drain'
\* event or the drain timeout; a write() resolves only after one of its
\* writeInternal calls completed; and a write the socket accepted always
\* eventually completes.
C13_CompletesAfterDrain ==
  /\ [][\A c \in CallIds : \A a \in {1, 2} :
          (AttemptSt(c, a) # "ok" /\ AttemptSt(c, a)' = "ok")
            => AttemptSt(c, a) \in {"cb", "drain"}]_vars
  /\ [](\A c \in CallIds :
          nCalls[c].promise = "resolved" => \E a \in {1, 2} : AttemptSt(c, a) = "ok")
  /\ \A c \in CallIds : \A a \in {1, 2} :
       (AttemptSt(c, a) = "drain") ~> (AttemptSt(c, a) = "ok")

\* The sockets the adapter created that have not been destroyed.
LiveSocks == {k \in SockIds : nSocks[k].st \in {"connecting", "open"}}

\* C14: exactly one device handle is live per transport: after any sequence
\* of connect, write and close calls and connection-loss events a
\* NetworkAdapter has at most one socket that has not been destroyed.
C14_OneLiveSocket == Cardinality(LiveSocks) <= 1

\* The USB adapter holds an open device with its selected interface claimed.
UsbConnected == uDevOpen /\ uResult = "ok" /\ uInterface \in uClaimed

\* C15: opening is idempotent: no call on a USBAdapter that is already open
\* calls device.open() or claim() again, and none replaces the interface
\* and endpoint it holds.
C15_IdempotentOpen ==
  [][UsbConnected =>
       UNCHANGED <<uOpenCalls, uClaimCalls, uInterface, uEndpoint>>]_vars

\* The startup initialize of part_002 failed: the self-test was never started.
StartupFailed == server = "usb" /\ booted /\ tasks[0] = IdleTask

\* C16: a printer that cannot be found or opened at startup does not stop
\* the consumer: the timer can always fire; while the printer is not
\* initialized a dequeued job makes an initialization attempt of its own,
\* which succeeds when the device answers; the job is then handed to
\* printMessage, and otherwise it ends with the initialization error.
C16_LazyInitialization ==
  /\ []((server = "usb" /\ booted) => ENABLED Tick)
  /\ []((server = "usb" /\ booted /\ ~initialized /\ queue # <<>>)
          => ENABLED (Tick /\ initialized'))
  /\ [][\A t \in ReqIds :
          (server = "usb" /\ ~initialized /\ deqOrder' = Append(deqOrder, t))
            => IF initialized'
               THEN /\ tasks'[t].handler = "race"
                    /\ tasks'[t].pc \in {"image", "xfer"}
                    /\ tasks'[t].job = Head(queue)
               ELSE tasks'[t].outcome = "initfail"]_vars

\* Startup failed, a first job met the initialization error and a later
\* one was printed.
C16_Witness ==
  /\ StartupFailed
  /\ \E t1, t2 \in ReqIds :
       /\ tasks[t1].outcome = "initfail"
       /\ tasks[t2].outcome = "ok"
       /\ Pos(deqOrder, t1) < Pos(deqOrder, t2)

\* Some USBAdapter.write of the server has rejected with a transfer error.
WriteFailed == \E u \in TaskIds : tasks[u].pc = "failed"

\* Printer.initialize goes on to construct and connect an adapter: it
\* returns at once when `initialized` is set.
InitializeConnects == ~initialized

\* C17: after a USBAdapter.write has failed with a transfer error, a job
\* dequeued later re-opens the device and re-claims an interface before it
\* writes.
C17_ReconnectsAfterTransferError ==
  [][(server = "usb" /\ WriteFailed /\ deqOrder' # deqOrder)
       => InitializeConnects]_vars

\* The descriptor of interface number n of the device.
SettingOf(n) == uConfig[CHOOSE i \in 1..Len(uConfig) : uConfig[i].num = n]

\* The priority connect gives interface number n.
PriorityOf(n) == Priority(SettingOf(n).class)

\* C18: connect tries to claim only interfaces with a bulk-OUT endpoint and
\* tries them in priority order, class 255 first, then the classes other
\* than 7 and 255, class 7 last: an interface is tried only after every
\* candidate of a better priority, whatever their order in the descriptor.
C18_ClaimsInPriorityOrder ==
  /\ \A i \in 1..Len(uTried) : HasBulkOut(SettingOf(uTried[i]))
  /\ \A i, j \in 1..Len(uTried) :
       i < j => PriorityOf(uTried[i]) <= PriorityOf(uTried[j])
  /\ \A i \in 1..Len(uTried) : \A k \in 1..Len(uConfig) :
       (HasBulkOut(uConfig[k]) /\ Priority(uConfig[k].class) < PriorityOf(uTried[i]))
         => \E j \in 1..(i - 1) : uTried[j] = uConfig[k].num

\* A connect went through three candidates, ending with the printer-class
\* interface that comes first in the descriptor.
C18_Witness ==
  /\ uResult = "ok"
  /\ Len(uTried) = 3
  /\ SettingOf(uTried[1]).class = 255
  /\ SettingOf(uTried[3]).class = 7
  /\ uConfig[1].num = uTried[3]

\* The candidates of the device in the order connect tries them.
TryOrder == SortCandidates(Candidates(uConfig))

\* The step is a connect() call that got past device.open().
ConnectStep == uOpenCalls' = uOpenCalls + 1 /\ uDevOpen'

FragmentStart(data, img) == Len(data) - Len(img) - 1

\* chunks is the chunking, each on its own and in order, of the bytes
\* before the fragment, the fragment, and the bytes after it.
ThreeSegments(data, img, chunks) ==
  LET at == FragmentStart(data, img)
  IN  /\ Slice(data, at, at + Len(img)) = img
      /\ Len(img) = 8 + (img[5] + 256 * img[6]) * (img[7] + 256 * img[8])
      /\ \E i, j \in 0..Len(chunks) :
           /\ i <= j
           /\ Concat(SubSeq(chunks, 1, i)) = Slice(data, 0, at)
           /\ Concat(SubSeq(chunks, i + 1, j)) = img
           /\ Concat(SubSeq(chunks, j + 1, Len(chunks)))
                = Slice(data, at + Len(img), Len(data))

\* Task t of the USB server waits for the raster of a readable image.
AwaitsRaster(t) ==
  server = "usb" /\ tasks[t].pc = "image" /\ LibProcessImage(tasks[t].job.image).ok

\* C20: when the buffer handed to USBAdapter.write holds a raster fragment,
\* the chunks it transfers are those of three segments in order: the
\* bytes before the fragment, the fragment (8 bytes of header and
\* bytesPerRow x height bytes of bitmap), the bytes after it; no chunk holds
\* bytes of two segments.
C20_ThreeSegmentsInOrder ==
  [][\A t \in TaskIds :
       (AwaitsRaster(t) /\ tasks'[t].pc = "xfer")
         => ThreeSegments(tasks'[t].commands,
                          LibProcessImage(tasks[t].job.image).data,
                          tasks'[t].chunks)]_vars

\* C21: for every buffer, the chunks USBAdapter.write transfers are each
\* between 1 and 64 bytes long and their concatenation in transfer order is
\* the buffer: no byte is lost, duplicated or reordered.
C21_ChunksAreTheBuffer ==
  fnName = "write" =>
    /\ \A k \in 1..Len(fnRes) : Len(fnRes[k]) \in 1..chunkSize
    /\ Concat(fnRes) = fnArg

\* The transfers write of task t has issued, and those whose callback fired.
Issued(t) == tasks[t].ci
Completed(t) == IF tasks[t].pc = "xfer" THEN tasks[t].ci - 1 ELSE tasks[t].ci

\* C22: write issues one transfer at a time, each after the completion
\* callback of the one before, and resolves only after the last chunk has
\* completed and the settle pause that follows it has elapsed.
C22_OneTransferAtATime ==
  [][\A t \in TaskIds : server = "usb" =>
       /\ Issued(t)' # Issued(t) =>
            /\ Issued(t)' = Issued(t) + 1
            /\ Completed(t) = Issued(t) \/ Completed(t)' = Issued(t)
            /\ tasks[t].pc \notin {"settle", "done", "failed"}
       /\ Issued(t)' - Completed(t)' \in {0, 1}
       /\ (tasks[t].pc # "settle" /\ tasks'[t].pc = "settle") =>
            /\ tasks[t].pc = "xfer"
            /\ Issued(t) = Len(tasks[t].chunks)
            /\ Completed(t)' = Len(tasks[t].chunks)
       /\ (tasks[t].pc # "done" /\ tasks'[t].pc = "done") => tasks[t].pc = "settle"
    ]_vars

\* A write of several chunks has resolved.
C22_Witness ==
  /\ server = "usb"
  /\ \E t \in TaskIds : tasks[t].pc = "done" /\ Issued(t) >= 2

\* A transfer of the write of task t reported an error: write rejected.
WriteRejected(t) == server = "usb" /\ tasks[t].pc = "failed"

\* C23: when a chunk transfer reports an error, write rejects and transfers
\* none of the remaining chunks, so the device holds a prefix of the job;
\* printMessage fails and the job does not end as printed.
C23_ErrorAbortsTheJob ==
  /\ [][\A t \in TaskIds : server = "usb" =>
          /\ (~WriteRejected(t) /\ WriteRejected(t)') =>
               /\ tasks[t].pc = "xfer"
               /\ Issued(t)' = Issued(t)
               /\ Issued(t) <= Len(tasks[t].chunks)
               /\ lastSent' = lastSent
          /\ WriteRejected(t) =>
               /\ WriteRejected(t)'
               /\ Issued(t)' = Issued(t)
               /\ lastSent' # lastSent => lastSent'.task # t
       ]_vars
  /\ [](\A t \in TaskIds : WriteRejected(t) => tasks[t].outcome # "ok")

\* The first transfer of a job of two chunks failed and the second chunk
\* was never transferred.
C23_Witness ==
  \E t \in ReqIds :
    /\ WriteRejected(t)
    /\ Issued(t) = 1
    /\ tasks[t].job.text = Long
    /\ tasks[t].outcome = "error"

\* C24: close never throws, whatever the state of the adapter and however
\* often it is called, and it attempts the device close in every call, also
\* when releasing the interface failed.
C24_CloseNeverThrows == ~uCloseThrew /\ uDevCloseCalls = uCloseCalls

\* close was called twice on a connected adapter; the release and the
\* device close both failed, so the device is still open with the
\* interface claimed.
C24_Witness ==
  /\ uCloseCalls = 2
  /\ uResult = "ok"
  /\ uDevOpen
  /\ uInterface \in uClaimed

\* The call made last assembled the command buffer of a job.
Assembled == fnName \in {"print", "formatMessage"}

\* The raster of the job's image as the function called computes it.
JobRaster ==
  IF fnName = "print" THEN processImage(fnArg.image) ELSE LibProcessImage(fnArg.image)

\* The fragments that are the image's raster, and those holding the name
\* and the text of the job.
ImageIdx ==
  {i \in 1..Len(fnRes) : HasImage(fnArg) /\ JobRaster.ok /\ fnRes[i] = JobRaster.data}
NameIdx ==
  {i \in 1..Len(fnRes) \ ImageIdx : Truthy(fnArg.name) /\ Contains(fnRes[i], fnArg.name)}
TextIdx ==
  {i \in 1..Len(fnRes) \ ImageIdx : Truthy(fnArg.text) /\ Contains(fnRes[i], fnArg.text)}

\* The feed lines of the trailer: "\n\n\n" before the cut in print,
\* newline(6) in formatMessage.
TrailerFeed == IF fnName = "print" THEN Newlines(3) ELSE Newlines(6)
FeedIdx ==
  CHOOSE i \in 0..Len(fnRes) :
    /\ i # 0 => fnRes[i] = TrailerFeed
    /\ \A j \in (i + 1)..Len(fnRes) : fnRes[j] # TrailerFeed

\* The first offset of needle in a fragment.
FirstAt(frag, needle) ==
  CHOOSE i \in Occurrences(frag, needle) : \A j \in Occurrences(frag, needle) : i <= j

\* C25: in the command buffer of every job the reset comes first, the name
\* before the text, both before the image, and all three before the feed
\* lines of the trailer.
C25_FragmentOrder ==
  Assembled =>
    /\ fnRes[1] = Reset
    /\ FeedIdx > 1
    /\ \A n \in NameIdx : \A t \in TextIdx :
         n < t \/ (n = t /\ FirstAt(fnRes[n], fnArg.name) < FirstAt(fnRes[t], fnArg.text))
    /\ \A k \in NameIdx \cup TextIdx : \A i \in ImageIdx : k < i
    /\ \A k \in NameIdx \cup TextIdx \cup ImageIdx : 1 < k /\ k < FeedIdx

\* A fragment of line feeds only, and the two full-cut commands of the
\* code: ESC i of print, GS V A 0 of the encoder's cut().
IsFeed(frag) == frag # <<>> /\ \A k \in 1..Len(frag) : frag[k] = LF
IsCut(frag) == frag \in {FullCut, EncCut(<<>>)[1]}

\* C26: the command buffer of every job begins with the reset fragment and
\* ends with feed lines followed by a full-cut command as its last fragment.
C26_ResetFirstCutLast ==
  Assembled =>
    /\ Len(fnRes) >= 3
    /\ fnRes[1] = Reset
    /\ IsFeed(fnRes[Len(fnRes) - 1])
    /\ IsCut(fnRes[Len(fnRes)])

\* The style command in effect at fragment i: the last fragment before i
\* that is one of `on` or `off` is `on`.
InEffect(i, on, off) ==
  LET js == {j \in 1..(i - 1) : fnRes[j] \in {on, off}}
  IN  js # {} /\ fnRes[CHOOSE j \in js : \A k \in js : k <= j] = on

\* C27: a name is appended in bold, double size and centered, and is
\* followed by the normal-size and bold-off fragments; the body text is
\* appended with bold off and normal size.
C27_NameStyle ==
  Assembled =>
    /\ \A n \in NameIdx :
         /\ InEffect(n, BoldOn, BoldOff)
         /\ InEffect(n, DoubleSize, NormalSize)
         /\ InEffect(n, AlignCenter, AlignLeft)
         /\ n + 2 <= Len(fnRes)
         /\ {fnRes[n + 1], fnRes[n + 2]} = {NormalSize, BoldOff}
    /\ \A t \in TextIdx :
         /\ ~InEffect(t, BoldOn, BoldOff)
         /\ ~InEffect(t, DoubleSize, NormalSize)

\* Bit n of byte b.
Bit(b, n) == (b \div (2 ^ n)) % 2

CeilDiv8(w) == (w + 7) \div 8

\* C28: the raster fragment of a w x h picture is 8 + ceil(w/8)*h bytes:
\* 1D 76 30 00, then ceil(w/8) and h as two bytes each, low byte first,
\* then the rows; pixel x of row y is bit 7 - (x mod 8) of bitmap byte
\* y*ceil(w/8) + floor(x/8), set exactly for the black pixels, and the bits
\* past the width are zero.
C28_RasterLayout ==
  fnName = "convertToBitmap" =>
    LET w == fnArg.w
        h == fnArg.h
        bpr == CeilDiv8(w)
    IN  /\ Len(fnRes) = 8 + bpr * h
        /\ SubSeq(fnRes, 1, 4) = <<29, 118, 48, 0>>
        /\ fnRes[5] + 256 * fnRes[6] = bpr
        /\ fnRes[7] + 256 * fnRes[8] = h
        /\ \A y \in 0..(h - 1) : \A x \in 0..(8 * bpr - 1) :
             Bit(fnRes[8 + y * bpr + (x \div 8) + 1], 7 - (x % 8))
               = IF x < w /\ GoodBlack(x, y) THEN 1 ELSE 0

\* C29: each appending operation of the encoder adds exactly one fragment
\* behind the fragments already there and changes none of them; getBuffer
\* returns the concatenation of the fragments in call order and leaves them
\* in place; clear empties the list.
C29_EncoderAppendsOneFragment ==
  [][/\ \A op \in {"init", "text", "newline", "align", "bold", "size", "image", "cut"} :
          (fnName' = "encoder" /\ fnArg'.op = op) =>
            /\ Len(encoder') = Len(encoder) + 1
            /\ SubSeq(encoder', 1, Len(encoder)) = encoder
            /\ fnRes' = fnRes
     /\ (fnName' = "encoder" /\ fnArg'.op = "getBuffer") =>
            /\ encoder' = encoder
            /\ fnRes' = Concat(encoder)
     /\ (fnName' = "encoder" /\ fnArg'.op = "clear") => encoder' = <<>>
    ]_vars

\* getBuffer returned the bytes of two fragments, which are still in place.
C29_Witness ==
  /\ fnName = "encoder"
  /\ fnArg.op = "getBuffer"
  /\ Len(encoder) = 2
  /\ encoder[2] # <<>>
  /\ fnRes = encoder[1] \o encoder[2]

\* C30: a portrait picture narrower than the target width is scaled up to
\* exactly the target width, and a landscape picture never comes out wider
\* than the target width.
C30_PortraitFillsWidth ==
  fnName = "resize" =>
    LET png == fnArg.png
        target == TargetWidth(fnArg.impl)
    IN  /\ (png.h > png.w /\ png.w < target) => fnRes.w = target
        /\ png.h <= png.w => fnRes.w <= target

\* C31: the buffer formatMessage returns for a message holds exactly the
\* fragments of that message, also when a second formatMessage call on the
\* Printer's formatter starts while the first awaits its image conversion.
C31_BufferIsOwnFragments ==
  server = "usb" =>
    \A t \in TaskIds :
      tasks[t].pc = "xfer" =>
        tasks[t].commands = EncGetBuffer(FormatParts(tasks[t].job))

\* C32: once the 30-second print timeout has abandoned a job, no further
\* chunk of that job's buffer is handed to the device.
C32_NoChunkAfterTimeout ==
  [][server = "usb" =>
       \A t \in TaskIds :
         tasks[t].outcome = "timeout" =>
           (lastSent' = lastSent \/ lastSent'.task # t)]_vars

\* C33: once the promise of a NetworkAdapter.write call has rejected, no
\* socket.write of that call's buffer is made any more.
C33_NoWriteAfterReject ==
  [][server = "net" =>
       \A c \in CallIds :
         nCalls[c].promise = "rejected" => nCalls'[c].sends = nCalls[c].sends]_vars

\* The step is the 'close' event of socket k.
CloseEvent(k) == nSocks[k].closeOwed /\ ~nSocks'[k].closeOwed

\* The step is the 'end' event of socket k.
EndEvent(k) ==
  /\ nSocks[k].st = "open" /\ nSocks'[k].st = "destroyed"
  /\ nSocks'[k].errL = nSocks[k].errL
  /\ nCrashed' = nCrashed /\ nCloses' = nCloses

\* this.socket is connected.
CurrentOpen == nSocket # 0 /\ nSocks[nSocket].st = "open"

\* C34: `connected` describes the current socket only: it is true only
\* while the current socket is connected, and a 'close' or 'end' event of a
\* socket that a later connect has replaced never sets it to false.
C34_ConnectedIsCurrentSocket ==
  [][server = "net" =>
       /\ nConnected' => CurrentOpen'
       /\ \A k \in SockIds :
            (k # nSocket /\ (CloseEvent(k) \/ EndEvent(k))) =>
              nConnected' = nConnected]_vars

\* C35: every 'error' event a socket emits after it has connected finds a
\* registered listener, so it never terminates the process.
C35_ErrorAlwaysHeard ==
  [][server = "net" =>
       \A k \in SockIds :
         (nSocks[k].st \in {"open", "broken"} /\ nSocks'[k].st = "destroyed") =>
           ~nCrashed']_vars

\* C36: in the command buffer of print the alignment in effect where the
\* body text is appended and where the trailer is appended is left: the last
\* alignment fragment before either, if there is one, is left-align.
C36_LeftOutsideRaster ==
  fnName = "print" =>
    LET body == {i \in 1..Len(fnRes) : Truthy(fnArg.text) /\ fnRes[i] = fnArg.text}
    IN  \A i \in body \cup {FeedIdx} : ~InEffect(i, AlignCenter, AlignLeft)

\* C37: the sender name appears exactly once in the command buffer of print
\* for every job that has a name, on every path through the name/logo block.
C37_NameExactlyOnce ==
  (fnName = "print" /\ Truthy(fnArg.name)) =>
    Cardinality({i \in 1..Len(fnRes) : fnRes[i] = fnArg.name}) = 1

\* C38: for a buffer formatMessage built, the segment write() isolates as
\* the raster fragment is the raster fragment the formatter appended, and no
\* segment is isolated when the message has no image, whatever bytes the
\* name and the text contain.
C38_IsolatesTheRaster ==
  fnName = "formatMessage" =>
    LET data == EncGetBuffer(fnRes)
        raster == LibProcessImage(fnArg.image)
    IN  IF HasImage(fnArg) /\ raster.ok
        THEN GsvIndex(data) >= 0 /\ UsbSegments(data)[2] = raster.data
        ELSE GsvIndex(data) = -1

\* C39: the fragment length write() computes from a raster header,
\* 8 + (xL + 256*xH) * (yL + 256*yH), is the length 8 + ceil(w/8)*h of the
\* fragment the raster converter produced, for every image size.
C39_HeaderLengthIsFragmentLength ==
  fnName = "convertToBitmap" =>
    LET bytesPerRow == fnRes[5] + 256 * fnRes[6]
        heightDots == fnRes[7] + 256 * fnRes[8]
    IN  /\ 8 + bytesPerRow * heightDots = 8 + CeilDiv8(fnArg.w) * fnArg.h
        /\ 8 + bytesPerRow * heightDots = Len(fnRes)
        /\ UsbSegments(fnRes) = <<<<>>, fnRes, <<>>>>

====
